---- MODULE Spec2Model ----
(***************************************************************************)
(* Model of the UMe causal-inference engine                                *)
(* (backend/app/fixed_causal_inference.py): the feature builder, the       *)
(* factor effect estimator, the interaction analyzer and the               *)
(* heterogeneity analyzer of UMeCausalInferenceEngine.                     *)
(*                                                                         *)
(* A pandas DataFrame is a record [columns, rows]: columns is the set of   *)
(* column names and rows a sequence of row groups [n, row], n consecutive  *)
(* identical rows whose cells are row[c].  Money is in whole units; a mean *)
(* is the exact fraction <<sum, count>>, and <<0, 0>> is NaN (the mean of  *)
(* no rows).  The estimates of the external estimation library are in      *)
(* thousandths.  The frames of the feature builder also carry the dtype   *)
(* of each column, and the engine section runs sequences of calls on one   *)
(* engine object.                                                          *)
(***************************************************************************)
EXTENDS Integers, Sequences, FiniteSets, TLC

VARIABLES
    pc,                \* "call": arguments chosen; "return"; "raise": an exception escaped
    op,                \* the engine method this call is of
    args,              \* its other arguments (a record)
    df,                \* the DataFrame argument (sales_df / df)
    weather_df,        \* the caller's weather DataFrame object (or None)
    estimator,         \* what the estimation library does in this call
    result,            \* the value returned to the caller
    fit_calls,         \* how many times LinearDML.fit ran in this call
    customer_data,     \* self.customer_data
    enhanced_data,     \* self.enhanced_data
    analysis_results,  \* self.analysis_results
    calls,             \* history: the create_all_features / analyze_all_factors calls made, in order
    raw_data,          \* self.raw_data of the engine
    tasks,             \* the coroutines and threads in flight, each with its position and locals
    active_connections,\* ConnectionManager.active_connections
    sessions,          \* ChatManager.sessions
    cache,             \* AnalysisService.cache
    now                \* datetime.now(), in seconds

vars == <<pc, op, args, df, weather_df, estimator, result, fit_calls,
          customer_data, enhanced_data, analysis_results, calls,
          raw_data, tasks, active_connections, sessions, cache, now>>

engineVars == <<customer_data, enhanced_data, analysis_results>>

serviceVars == <<raw_data, tasks, active_connections, sessions, cache, now>>

\* The fields of the engine object the methods of the model read or write.
self ==
    [customer_data |-> customer_data, enhanced_data |-> enhanced_data,
     analysis_results |-> analysis_results]

----------------------------------------------------------------------------
(* Values *)

\* Python None, for a field or an argument that holds a DataFrame or a dict.
None == [none |-> TRUE]

\* {} as a Python dict
EmptyDict == [k \in {} |-> 0]

\* numpy NaN in a numeric cell (a value no row of the model uses as a number).
NaN == 0 - 999999

\* A cell of an object column that pd.to_numeric(errors='coerce') cannot parse.
NonNumeric == 0 - 888888

\* NaN as a mean: the mean of no rows.
NaNMean == <<0, 0>>

IsNaNMean(m) == m[2] = 0

RECURSIVE GCD(_, _)
GCD(a, b) == IF b = 0 THEN a ELSE GCD(b, a % b)

\* The fraction num/den (den > 0) in lowest terms.
Fraction(num, den) ==
    LET g == GCD(IF num < 0 THEN 0 - num ELSE num, den)
    IN  <<num \div g, den \div g>>

\* a - b on means; NaN propagates.
MeanSub(a, b) ==
    IF IsNaNMean(a) \/ IsNaNMean(b) THEN NaNMean
    ELSE Fraction(a[1] * b[2] - b[1] * a[2], a[2] * b[2])

\* Numeric equality of two means (NaN equals nothing).
MeanEq(a, b) == ~IsNaNMean(a) /\ ~IsNaNMean(b) /\ a[1] * b[2] = b[1] * a[2]

\* The mean whose value is the whole number k.
Whole(k) == <<k, 1>>

----------------------------------------------------------------------------
(* DataFrame operations *)

RECURSIVE SumSeq(_)
SumSeq(s) == IF s = <<>> THEN 0 ELSE Head(s) + SumSeq(Tail(s))

\* len(df)
nrows(d) == SumSeq([i \in 1..Len(d.rows) |-> d.rows[i].n])

\* df[mask] for a mask that is a conjunction of df[c] == cond[c]: the rows
\* whose cells equal those of the record cond
Where(d, cond) ==
    [d EXCEPT !.rows = SelectSeq(d.rows, LAMBDA g : \A c \in DOMAIN cond : g.row[c] = cond[c])]

\* df[col].sum(), NaN cells skipped
colsum(d, col) ==
    SumSeq([i \in 1..Len(d.rows) |->
              IF d.rows[i].row[col] = NaN THEN 0 ELSE d.rows[i].n * d.rows[i].row[col]])

\* df[col].count(): the cells that are not NaN
colcount(d, col) ==
    SumSeq([i \in 1..Len(d.rows) |-> IF d.rows[i].row[col] = NaN THEN 0 ELSE d.rows[i].n])

\* df[col].mean(): NaN cells skipped, NaN when nothing is left
colmean(d, col) == <<colsum(d, col), colcount(d, col)>>

\* df[col].unique(), in order of first appearance
RECURSIVE UniqueOf(_, _)
UniqueOf(s, seen) ==
    IF s = <<>> THEN <<>>
    ELSE IF Head(s) \in seen THEN UniqueOf(Tail(s), seen)
         ELSE <<Head(s)>> \o UniqueOf(Tail(s), seen \cup {Head(s)})

unique(d, col) ==
    UniqueOf([i \in 1..Len(SelectSeq(d.rows, LAMBDA g : g.n > 0)) |->
                SelectSeq(d.rows, LAMBDA g : g.n > 0)[i].row[col]], {})

----------------------------------------------------------------------------
(* 7. Utility: _force_numeric, and DataFrame.dropna *)

\* _force_numeric(df, cols): a copy of df in which every column of cols that df
\* has is passed through pd.to_numeric(errors='coerce'): a cell that does not
\* parse becomes NaN.  Columns df lacks are skipped.
_force_numeric(d, cols) ==
    [d EXCEPT !.rows =
        [i \in 1..Len(d.rows) |->
            [d.rows[i] EXCEPT !.row =
                [c \in DOMAIN d.rows[i].row |->
                    IF c \in cols /\ d.rows[i].row[c] = NonNumeric
                    THEN NaN ELSE d.rows[i].row[c]]]]]

\* df.dropna(subset=cols): the rows with no NaN in cols.  pandas raises
\* KeyError when a name of cols is not a column: see KeyErrorIn.
dropna(d, cols) ==
    [d EXCEPT !.rows = SelectSeq(d.rows, LAMBDA g : \A c \in cols : g.row[c] # NaN)]

\* df[cols] / dropna(subset=cols) raise KeyError when a column is absent.
KeyErrorIn(d, cols) == ~(cols \subseteq d.columns)

----------------------------------------------------------------------------
(* 5. Factor effect estimator *)

\* "if len(clean_df) < 50"
MinSampleSize == 50

Abs(x) == IF x < 0 THEN 0 - x ELSE x

\* "not (ci_lower <= 0 <= ci_upper)", with the strict comparison a slip
\* would leave.
significant_strict(ci_lower, ci_upper) == ~(ci_lower < 0 /\ 0 < ci_upper)

\* 'significant': not (ci_lower <= 0 <= ci_upper)
significant(ci_lower, ci_upper) == ~(ci_lower <= 0 /\ 0 <= ci_upper)

\* The sample-size gate with an off-by-one threshold.
too_few_rows_le(n) == n <= MinSampleSize

\* "len(clean_df) < 50"
too_few_rows(n) == n < MinSampleSize

\* The interval with a fallback half-width of 1.96 * abs(ate), the factor 0.1
\* left out.
ate_interval_wide(est) ==
    IF est.interval = "ok" THEN <<est.ci_lower, est.ci_upper>>
    ELSE <<est.ate - (196 * Abs(est.ate)) \div 100,
           est.ate + (196 * Abs(est.ate)) \div 100>>

\* The confidence interval of the estimate: ldml.ate_interval(X_te, alpha=0.05),
\* and when that raises, ate -/+ 1.96 * abs(ate) * 0.1 (in thousandths).
ate_interval(est) ==
    IF est.interval = "ok" THEN <<est.ci_lower, est.ci_upper>>
    ELSE <<est.ate - (196 * Abs(est.ate)) \div 1000,
           est.ate + (196 * Abs(est.ate)) \div 1000>>

\* _analyze_single_factor_econml(df, treatment, treatment_name, confounders).
\* Returns [raised, fits, value]: raised when an exception escapes the method,
\* fits the number of LinearDML.fit calls made, value the returned dict.
_analyze_single_factor_econml(d, treatment, confounders, est) ==
    LET analysis_cols == {treatment, "total_revenue"} \cup confounders IN
    IF KeyErrorIn(d, analysis_cols)
    THEN [raised |-> TRUE, fits |-> 0, value |-> None]
    ELSE
    LET clean_df == dropna(_force_numeric(d, analysis_cols), analysis_cols)
        n        == nrows(clean_df)
        ci       == ate_interval(est)
    IN  IF too_few_rows(n)
        THEN [raised |-> FALSE, fits |-> 0,
              value |-> [error |-> "InsufficientData", sample_size |-> n]]
        ELSE IF est.fit = "raise"
        THEN [raised |-> FALSE, fits |-> 1, value |-> [error |-> "EstimationFailure"]]
        ELSE [raised |-> FALSE, fits |-> 1,
              value |-> [ate |-> est.ate,
                         ci_lower |-> ci[1],
                         ci_upper |-> ci[2],
                         treatment_rate |-> colmean(clean_df, treatment),
                         treatment_group_mean |->
                             colmean(Where(clean_df, treatment :> 1),
                                     "total_revenue"),
                         control_group_mean |->
                             colmean(Where(clean_df, treatment :> 0),
                                     "total_revenue"),
                         sample_size |-> n,
                         significant |-> significant(ci[1], ci[2])]]

\* factors_to_analyze of analyze_all_factors: name and confounders, in order;
\* the two weather factors are appended when df has an is_hot column.
factors_to_analyze(d) ==
    << [name |-> "has_promotion",
        confounders |-> {"is_weekend", "is_holiday", "day_of_week",
                         "unique_customers", "category_diversity"}],
       [name |-> "is_weekend",
        confounders |-> {"is_holiday", "unique_customers", "has_promotion"}],
       [name |-> "is_holiday",
        confounders |-> {"is_weekend", "day_of_week", "unique_customers"}] >>
    \o IF "is_hot" \in d.columns
       THEN << [name |-> "is_hot",
                confounders |-> {"is_weekend", "is_holiday", "day_of_week",
                                 "unique_customers"}],
               [name |-> "is_rainy",
                confounders |-> {"is_weekend", "is_holiday", "day_of_week",
                                 "temperature_mean"}] >>
       ELSE << >>

----------------------------------------------------------------------------
(* 5. Interaction analyzer *)

\* "if mask.sum() > 5"
MinCellCount == 5

\* f"{val1}_{val2}"
CellKey(val1, val2) ==
    IF val1 = 0 THEN (IF val2 = 0 THEN "0_0" ELSE "0_1")
    ELSE (IF val2 = 0 THEN "1_0" ELSE "1_1")

CellValues == {<<0, 0>>, <<0, 1>>, <<1, 0>>, <<1, 1>>}

\* df[(df[factor1] == val1) & (df[factor2] == val2)]
Cell(d, factor1, factor2, val1, val2) ==
    Where(d, (factor1 :> val1) @@ (factor2 :> val2))

\* The cell gate with the comparison of the comment ("at least 5 samples").
cell_qualifies_ge(count) == count >= MinCellCount

\* "mask.sum() > 5"
cell_qualifies(count) == count > MinCellCount

\* The contrast with the second main effect left out.
interaction_contrast_short(combined_effect, factor1_effect, factor2_effect) ==
    MeanSub(combined_effect, factor1_effect)

\* "interaction_effect = combined_effect - factor1_effect - factor2_effect"
interaction_contrast(combined_effect, factor1_effect, factor2_effect) ==
    MeanSub(MeanSub(combined_effect, factor1_effect), factor2_effect)

\* _calculate_interaction_effect(df, factor1, factor2, name): the whole body is
\* one try block, so nothing escapes; reading total_revenue of a qualifying
\* cell raises KeyError when the column is absent.
_calculate_interaction_effect(d, factor1, factor2, name) ==
    LET count(v)  == nrows(Cell(d, factor1, factor2, v[1], v[2]))
        included  == {v \in CellValues : cell_qualifies(count(v))}
        results   == [k \in {CellKey(v[1], v[2]) : v \in included} |->
                         LET v == CHOOSE w \in included : CellKey(w[1], w[2]) = k
                         IN  [revenue |-> colmean(Cell(d, factor1, factor2, v[1], v[2]),
                                                  "total_revenue"),
                              count |-> count(v)]]
    IN  IF included # {} /\ "total_revenue" \notin d.columns
        THEN [error |-> "KeyError", name |-> name]
        ELSE IF Cardinality(DOMAIN results) = 4
        THEN LET baseline        == results["0_0"].revenue
                 factor1_effect  == MeanSub(results["1_0"].revenue, baseline)
                 factor2_effect  == MeanSub(results["0_1"].revenue, baseline)
                 combined_effect == MeanSub(results["1_1"].revenue, baseline)
             IN  [interaction_effect |->
                      interaction_contrast(combined_effect, factor1_effect, factor2_effect),
                  factor1_main_effect |-> factor1_effect,
                  factor2_main_effect |-> factor2_effect,
                  combined_effect |-> combined_effect,
                  group_details |-> results,
                  name |-> name]
        ELSE [error |-> "InsufficientData", name |-> name]

\* interaction_pairs of _analyze_interactions, in order
interaction_pairs ==
    << [factor1 |-> "is_rainy", factor2 |-> "has_promotion", name |-> "rainy x promotion"],
       [factor1 |-> "is_hot", factor2 |-> "has_promotion", name |-> "hot x promotion"],
       [factor1 |-> "is_weekend", factor2 |-> "has_promotion", name |-> "weekend x promotion"],
       [factor1 |-> "is_holiday", factor2 |-> "is_weekend", name |-> "holiday x weekend"] >>

\* f"{factor1}_x_{factor2}"
PairKey(p) ==
    IF p.factor1 = "is_rainy" THEN "is_rainy_x_has_promotion"
    ELSE IF p.factor1 = "is_hot" THEN "is_hot_x_has_promotion"
    ELSE IF p.factor1 = "is_weekend" THEN "is_weekend_x_has_promotion"
    ELSE "is_holiday_x_is_weekend"

\* The pairs both of whose columns df has.
PairsIn(d) ==
    {p \in {interaction_pairs[i] : i \in 1..Len(interaction_pairs)} :
        p.factor1 \in d.columns /\ p.factor2 \in d.columns}

\* _analyze_interactions(df): one entry per pair whose two columns df has.
_analyze_interactions(d) ==
    [k \in {PairKey(p) : p \in PairsIn(d)} |->
        LET p == CHOOSE q \in PairsIn(d) : PairKey(q) = k
        IN  _calculate_interaction_effect(d, p.factor1, p.factor2, p.name)]

----------------------------------------------------------------------------
(* 5. Heterogeneity analyzer *)

\* "len(store_df) > 30"
MinStoreRows == 30

\* "store_df['has_promotion'].sum() > 5"
MinStorePromoted == 5

\* "len(weather_df) > 20"
MinWeatherRows == 20

\* "weather_df['has_promotion'].sum() > 3"
MinWeatherPromoted == 3

\* "len(promo_df) > 10 and len(no_promo_df) > 10"
MinCategoryRows == 10

\* The store gate with thresholds that admit 30 rows / 5 promoted rows.
store_qualifies_ge(store_df) ==
    nrows(store_df) >= MinStoreRows /\ colsum(store_df, "has_promotion") >= MinStorePromoted

\* "len(store_df) > 30 and store_df['has_promotion'].sum() > 5"
store_qualifies(store_df) ==
    nrows(store_df) > MinStoreRows /\ colsum(store_df, "has_promotion") > MinStorePromoted

\* The weather gate with thresholds that admit 20 rows / 3 promoted rows.
weather_qualifies_ge(cond_df) ==
    nrows(cond_df) >= MinWeatherRows /\ colsum(cond_df, "has_promotion") >= MinWeatherPromoted

\* "len(weather_df) > 20 and weather_df['has_promotion'].sum() > 3"
weather_qualifies(cond_df) ==
    nrows(cond_df) > MinWeatherRows /\ colsum(cond_df, "has_promotion") > MinWeatherPromoted

\* The difference-in-means entry of one slice.
slice_effect(slice_df) ==
    LET treated_mean == colmean(Where(slice_df, [has_promotion |-> 1]),
                                "total_revenue")
        control_mean == colmean(Where(slice_df, [has_promotion |-> 0]),
                                "total_revenue")
    IN  [effect |-> MeanSub(treated_mean, control_mean),
         treated_mean |-> treated_mean,
         control_mean |-> control_mean,
         sample_size |-> nrows(slice_df)]

\* store_effects of _analyze_heterogeneity
store_effects(d) ==
    LET ids == unique(d, "location_id")
        store_df(id) == Where(d, [location_id |-> id])
    IN  [id \in {x \in {ids[i] : i \in 1..Len(ids)} : store_qualifies(store_df(x))}
            |-> slice_effect(store_df(id))]

\* weather_conditions of _analyze_heterogeneity
weather_conditions == {"is_hot", "is_rainy", "is_mild"}

\* weather_effects of _analyze_heterogeneity
weather_effects(d) ==
    LET cond_df(condition) == Where(d, condition :> 1)
    IN  [condition \in {c \in weather_conditions \cap d.columns :
                            weather_qualifies(cond_df(c))}
            |-> slice_effect(cond_df(condition))]

\* category_columns of _analyze_category_heterogeneity: column -> label
category_columns ==
    [tea_drinks_orders |-> "tea drinks", coffee_orders |-> "coffee",
     food_orders |-> "snacks", caffeine_free_orders |-> "caffeine-free drinks",
     new_product_orders |-> "new products"]

\* _analyze_category_heterogeneity(df); lift is (promo_avg - no_promo_avg) /
\* (no_promo_avg + 1e-6), kept as its two terms.
_analyze_category_heterogeneity(d) ==
    LET promo_df    == Where(d, [has_promotion |-> 1])
        no_promo_df == Where(d, [has_promotion |-> 0])
        cols == IF nrows(promo_df) > MinCategoryRows /\ nrows(no_promo_df) > MinCategoryRows
                THEN DOMAIN category_columns \cap d.columns ELSE {}
    IN  [label \in {category_columns[c] : c \in cols} |->
            LET col == CHOOSE c \in cols : category_columns[c] = label
                promo_avg    == colmean(promo_df, col)
                no_promo_avg == colmean(no_promo_df, col)
            IN  [promotion_avg |-> promo_avg,
                 no_promotion_avg |-> no_promo_avg,
                 lift |-> [difference |-> MeanSub(promo_avg, no_promo_avg),
                           over_plus_epsilon |-> no_promo_avg],
                 absolute_difference |-> MeanSub(promo_avg, no_promo_avg)]]

\* A dict d with d[key] = value set.
SetItem(d, key, value) == [k \in DOMAIN d \cup {key} |-> IF k = key THEN value ELSE d[k]]

\* _analyze_heterogeneity(df).  Returns [raised, value].  Nothing in the method
\* catches: df['location_id'] raises KeyError when the column is absent, and so
\* does reading total_revenue of a slice that passed its gate.
_analyze_heterogeneity(d) ==
    LET has_promo   == "has_promotion" \in d.columns
        has_weather == "is_hot" \in d.columns /\ has_promo
        by_store    == store_effects(d)
        by_weather  == weather_effects(d)
        by_category == _analyze_category_heterogeneity(d)
        h1 == IF has_promo THEN SetItem(EmptyDict, "promotion_by_store", by_store)
              ELSE EmptyDict
        h2 == IF has_weather THEN SetItem(h1, "promotion_by_weather", by_weather) ELSE h1
        h3 == IF has_promo /\ DOMAIN by_category # {}
              THEN SetItem(h2, "promotion_by_category", by_category) ELSE h2
    IN  IF has_promo /\ "location_id" \notin d.columns
        THEN [raised |-> TRUE, value |-> None]
        ELSE IF has_promo /\ "total_revenue" \notin d.columns
                /\ (DOMAIN by_store # {} \/ (has_weather /\ DOMAIN by_weather # {}))
        THEN [raised |-> TRUE, value |-> None]
        ELSE [raised |-> FALSE, value |-> h3]

----------------------------------------------------------------------------
(* 5. analyze_all_factors *)

\* The loop "for factor in factors_to_analyze" from factor i on: acc is
\* [raised, fits, value] so far.  A factor whose column df lacks is skipped; an
\* exception that escapes _analyze_single_factor_econml ends the loop.
RECURSIVE AnalyzeFactorsFrom(_, _, _, _)
AnalyzeFactorsFrom(d, est, i, acc) ==
    IF acc.raised \/ i > Len(factors_to_analyze(d)) THEN acc
    ELSE LET factor == factors_to_analyze(d)[i] IN
         IF factor.name \notin d.columns
         THEN AnalyzeFactorsFrom(d, est, i + 1, acc)
         ELSE LET r == _analyze_single_factor_econml(d, factor.name, factor.confounders,
                                                     est[factor.name])
              IN  AnalyzeFactorsFrom(d, est, i + 1,
                     [raised |-> r.raised,
                      fits |-> acc.fits + r.fits,
                      value |-> IF r.raised THEN acc.value
                                ELSE SetItem(acc.value, factor.name, r.value)])

\* analyze_all_factors(df).  Returns [raised, fits, value]; when it returns,
\* value is also stored in self.analysis_results.
analyze_all_factors(d, est) ==
    LET factors == AnalyzeFactorsFrom(d, est, 1,
                       [raised |-> FALSE, fits |-> 0, value |-> EmptyDict])
        heterogeneity_results == _analyze_heterogeneity(d)
    IN  IF factors.raised THEN [raised |-> TRUE, fits |-> factors.fits, value |-> None]
        ELSE IF heterogeneity_results.raised
        THEN [raised |-> TRUE, fits |-> factors.fits, value |-> None]
        ELSE [raised |-> FALSE, fits |-> factors.fits,
              value |-> SetItem(SetItem(factors.value, "interactions",
                                        _analyze_interactions(d)),
                                "heterogeneity", heterogeneity_results.value)]

----------------------------------------------------------------------------
(* The panels and the library outcomes the specifications draw from *)

\* A row group of an estimator panel is small (0..MaxExtraRows rows) or one
\* block of BaseRows rows larger: two groups give 48..52 clean rows.
BaseRows == 24

MaxExtraRows == 2

GroupSizes == { k * BaseRows + a : k \in {0, 1}, a \in 0..MaxExtraRows }

\* Rows with a missing cell in an estimator panel.
MaxMissingRows == 1

\* Estimates of the library, in units, range over -MaxAte..MaxAte.
MaxAte == 1

\* The columns load_integrated_data returns that the analyses read.
SalesColumns ==
    {"location_id", "total_revenue", "day_of_week", "unique_customers",
     "category_diversity"}

\* The columns _create_promotion_features, _create_calendar_features and
\* _create_interaction_features add that the analyses read.
BaseFeatureColumns ==
    {"has_promotion", "is_weekend", "is_holiday"}

\* The columns _create_weather_features adds that the analyses read.
WeatherFeatureColumns ==
    {"temperature_mean", "is_hot", "is_rainy", "is_mild"}

\* One engineered row without weather columns.
PanelRow(store, promo, weekend, holiday, revenue, customers) ==
    [location_id |-> store, total_revenue |-> revenue, day_of_week |-> 1,
     unique_customers |-> customers, category_diversity |-> 3,
     has_promotion |-> promo, is_weekend |-> weekend, is_holiday |-> holiday]

\* Panels for the effect estimator: promoted weekday rows, plain weekend
\* (holiday) rows, and rows with a cell that is missing or does not parse.
EffectPanels ==
    { [columns |-> SalesColumns \cup BaseFeatureColumns,
       rows |-> << [n |-> a, row |-> PanelRow(1, 1, 0, 0, 120, 10)],
                   [n |-> b, row |-> PanelRow(1, 0, 1, 1, 100, 10)],
                   [n |-> m, row |-> PanelRow(1, 1, 1, 0, 90, bad)] >>] :
        a \in GroupSizes, b \in GroupSizes,
        m \in 0..MaxMissingRows, bad \in {NaN, NonNumeric} }

\* Estimates of other sizes, in units, for which the library gives no interval.
AteSizes == {5, 10000}

\* What the estimation library can do in one call: fit (or anything before
\* it in the try block) raises; or it returns ate and then ate_interval
\* returns an interval or raises.
EstimatorOutcomes ==
    { [fit |-> "raise", ate |-> 0, interval |-> "raise", ci_lower |-> 0, ci_upper |-> 0] }
    \cup { [fit |-> "ok", ate |-> 1000 * s * a, interval |-> "raise",
            ci_lower |-> 0, ci_upper |-> 0] : s \in {0 - 1, 1}, a \in AteSizes }
    \cup { [fit |-> "ok", ate |-> 1000 * a, interval |-> "raise",
            ci_lower |-> 0, ci_upper |-> 0] : a \in (0 - MaxAte)..MaxAte }
    \cup { [fit |-> "ok", ate |-> 1000 * a, interval |-> "ok",
            ci_lower |-> 1000 * lo, ci_upper |-> 1000 * hi] :
            a \in (0 - MaxAte)..MaxAte,
            lo \in (0 - MaxAte)..MaxAte, hi \in (0 - MaxAte)..MaxAte }

\* The service objects of main.py before any request: no connection, no
\* session, an empty cache, no coroutine in flight.
ServiceInit ==
    /\ raw_data = None
    /\ tasks = <<>>
    /\ active_connections = EmptyDict
    /\ sessions = EmptyDict
    /\ cache = EmptyDict
    /\ now = 0

\* The engine as __init__ leaves it.
EngineInit ==
    /\ customer_data = None
    /\ enhanced_data = None
    /\ analysis_results = EmptyDict

----------------------------------------------------------------------------
(* Specification of one call of _analyze_single_factor_econml *)

InitEffect ==
    /\ pc = "call"
    /\ op = "_analyze_single_factor_econml"
    /\ df \in EffectPanels
    /\ args \in { [treatment |-> factors_to_analyze(df)[i].name,
                   confounders |-> factors_to_analyze(df)[i].confounders] :
                  i \in 1..Len(factors_to_analyze(df)) }
    /\ estimator \in EstimatorOutcomes
    /\ weather_df = None
    /\ result = None
    /\ fit_calls = 0
    /\ calls = <<>>
    /\ EngineInit
    /\ ServiceInit

AnalyzeSingleFactor ==
    /\ pc = "call"
    /\ op = "_analyze_single_factor_econml"
    /\ LET r == _analyze_single_factor_econml(df, args.treatment, args.confounders,
                                              estimator)
       IN  /\ pc' = IF r.raised THEN "raise" ELSE "return"
           /\ result' = r.value
           /\ fit_calls' = r.fits
    /\ UNCHANGED serviceVars
    /\ UNCHANGED <<op, args, df, weather_df, estimator, calls, engineVars>>

NextEffect == AnalyzeSingleFactor

SpecEffect == InitEffect /\ [][NextEffect]_vars

----------------------------------------------------------------------------
(* Properties of the factor effect estimator *)

\* The rows of d in which every column of cols holds a number.
ValidRows(d, cols) ==
    SumSeq([i \in 1..Len(d.rows) |->
              IF \A c \in cols : d.rows[i].row[c] \notin {NaN, NonNumeric}
              THEN d.rows[i].n ELSE 0])

EffectCols == {args.treatment, "total_revenue"} \cup args.confounders

\* C2: the estimator is gated on the rows left after dropping those with a
\* missing treatment, outcome or confounder: with 49 or fewer it returns an
\* error result carrying that sample size and no ate, and never calls fit;
\* with 50 or more it calls fit.
C2_SampleSizeGate ==
    (pc = "return" /\ op = "_analyze_single_factor_econml") =>
        LET n == ValidRows(df, EffectCols) IN
        /\ n <= 49 => /\ "error" \in DOMAIN result
                      /\ "ate" \notin DOMAIN result
                      /\ result.sample_size = n
                      /\ fit_calls = 0
        /\ n >= 50 => fit_calls = 1

\* C2 witness: a panel with 49 valid rows (and one dropped) was refused.
C2_Witness ==
    /\ pc = "return" /\ op = "_analyze_single_factor_econml"
    /\ ValidRows(df, EffectCols) = 49
    /\ nrows(df) = 50
    /\ result = [error |-> "InsufficientData", sample_size |-> 49]
    /\ fit_calls = 0

\* A panel with exactly 50 valid rows reached the fit and got an estimate.
C2_FitAtFifty ==
    /\ pc = "return" /\ op = "_analyze_single_factor_econml"
    /\ ValidRows(df, EffectCols) = 50
    /\ fit_calls = 1
    /\ "ate" \in DOMAIN result
    /\ result.sample_size = 50

\* C5: in every effect result that carries an estimate, significant is true
\* if and only if zero lies outside the closed interval [ci_lower, ci_upper].
C5_SignificantIffZeroOutside ==
    (pc = "return" /\ op = "_analyze_single_factor_econml"
        /\ "ate" \in DOMAIN result) =>
        (result.significant <=> (0 < result.ci_lower \/ result.ci_upper < 0))

\* C5 witness: an interval whose lower endpoint is zero is not significant.
C5_Witness ==
    /\ pc = "return" /\ op = "_analyze_single_factor_econml"
    /\ "ate" \in DOMAIN result
    /\ result.ci_lower = 0 /\ result.ci_upper > 0
    /\ result.significant = FALSE

----------------------------------------------------------------------------
(* Specification of one call of _calculate_interaction_effect *)

\* Rows per cell of an interaction panel.
MaxCellRows == 6

\* The first row of a cell earns this much more than the others.
Shifts == {0, 1}

\* The revenue of the rows of a cell in the panels drawn: the end-to-end
\* scenario's cell means.
ScenarioRevenue(val1, val2) ==
    IF val1 = 0 THEN (IF val2 = 0 THEN 100 ELSE 120)
    ELSE (IF val2 = 0 THEN 150 ELSE 300)

\* n rows of cell (val1, val2) of the pair (f1, f2), the first earning shift more.
CellRows(f1, f2, val1, val2, n, shift) ==
    LET row(rev) == [PanelRow(1, 0, 0, 0, rev, 10) EXCEPT ![f1] = val1, ![f2] = val2]
    IN  << [n |-> IF n > 0 THEN 1 ELSE 0, row |-> row(ScenarioRevenue(val1, val2) + shift)],
           [n |-> IF n > 0 THEN n - 1 ELSE 0, row |-> row(ScenarioRevenue(val1, val2))] >>

CellSizes == [CellValues -> 0..MaxCellRows]

CellShifts == [CellValues -> Shifts]

InteractionPanels(f1, f2) ==
    { [columns |-> SalesColumns \cup BaseFeatureColumns,
       rows |-> CellRows(f1, f2, 0, 0, n[<<0, 0>>], sh[<<0, 0>>])
                \o CellRows(f1, f2, 1, 0, n[<<1, 0>>], sh[<<1, 0>>])
                \o CellRows(f1, f2, 0, 1, n[<<0, 1>>], sh[<<0, 1>>])
                \o CellRows(f1, f2, 1, 1, n[<<1, 1>>], sh[<<1, 1>>])] :
        n \in CellSizes, sh \in CellShifts }

InitInteraction ==
    /\ pc = "call"
    /\ op = "_calculate_interaction_effect"
    /\ args \in {p \in {interaction_pairs[i] : i \in 1..Len(interaction_pairs)} :
                    {p.factor1, p.factor2} \subseteq BaseFeatureColumns}
    /\ df \in InteractionPanels(args.factor1, args.factor2)
    /\ estimator = None
    /\ weather_df = None
    /\ result = None
    /\ fit_calls = 0
    /\ calls = <<>>
    /\ EngineInit
    /\ ServiceInit

CalculateInteractionEffect ==
    /\ pc = "call"
    /\ op = "_calculate_interaction_effect"
    /\ pc' = "return"
    /\ result' = _calculate_interaction_effect(df, args.factor1, args.factor2, args.name)
    /\ UNCHANGED serviceVars
    /\ UNCHANGED <<op, args, df, weather_df, estimator, fit_calls, calls, engineVars>>

NextInteraction == CalculateInteractionEffect

SpecInteraction == InitInteraction /\ [][NextInteraction]_vars

----------------------------------------------------------------------------
(* Properties of the interaction analyzer *)

\* The rows of d with factor1 = val1 and factor2 = val2.
RowsInCell(d, factor1, factor2, val1, val2) ==
    SumSeq([i \in 1..Len(d.rows) |->
              IF d.rows[i].row[factor1] = val1 /\ d.rows[i].row[factor2] = val2
              THEN d.rows[i].n ELSE 0])

\* The total revenue of those rows.
RevenueInCell(d, factor1, factor2, val1, val2) ==
    SumSeq([i \in 1..Len(d.rows) |->
              IF d.rows[i].row[factor1] = val1 /\ d.rows[i].row[factor2] = val2
              THEN d.rows[i].n * d.rows[i].row["total_revenue"] ELSE 0])

\* The mean revenue of cell (val1, val2) of the pair the call is about.
CellMean(val1, val2) ==
    <<RevenueInCell(df, args.factor1, args.factor2, val1, val2),
      RowsInCell(df, args.factor1, args.factor2, val1, val2)>>

CellCount(val1, val2) == RowsInCell(df, args.factor1, args.factor2, val1, val2)

MeanAdd(a, b) ==
    IF IsNaNMean(a) \/ IsNaNMean(b) THEN NaNMean
    ELSE Fraction(a[1] * b[2] + b[1] * a[2], a[2] * b[2])

InteractionReturned == pc = "return" /\ op = "_calculate_interaction_effect"

C4_InteractionIdentity ==
    (InteractionReturned /\ \A v \in CellValues : CellCount(v[1], v[2]) > 5) =>
        /\ "interaction_effect" \in DOMAIN result
        /\ MeanEq(result.factor1_main_effect, MeanSub(CellMean(1, 0), CellMean(0, 0)))
        /\ MeanEq(result.factor2_main_effect, MeanSub(CellMean(0, 1), CellMean(0, 0)))
        /\ MeanEq(result.combined_effect, MeanSub(CellMean(1, 1), CellMean(0, 0)))
        /\ MeanEq(result.interaction_effect,
                  MeanSub(MeanAdd(CellMean(1, 1), CellMean(0, 0)),
                          MeanAdd(CellMean(1, 0), CellMean(0, 1))))
        /\ MeanEq(MeanAdd(result.interaction_effect,
                          MeanAdd(result.factor1_main_effect, result.factor2_main_effect)),
                  result.combined_effect)
        /\ (/\ MeanEq(CellMean(0, 0), Whole(100)) /\ MeanEq(CellMean(1, 0), Whole(150))
            /\ MeanEq(CellMean(0, 1), Whole(120)) /\ MeanEq(CellMean(1, 1), Whole(300)))
              => MeanEq(result.interaction_effect, Whole(130))

\* C4 witness: the scenario's cell means gave an interaction_effect of 130.
C4_Witness ==
    /\ InteractionReturned
    /\ MeanEq(CellMean(0, 0), Whole(100)) /\ MeanEq(CellMean(1, 0), Whole(150))
    /\ MeanEq(CellMean(0, 1), Whole(120)) /\ MeanEq(CellMean(1, 1), Whole(300))
    /\ "interaction_effect" \in DOMAIN result
    /\ MeanEq(result.interaction_effect, Whole(130))

\* Cell means that are not whole numbers were analysed too.
C4_FractionalMeans ==
    /\ InteractionReturned
    /\ "interaction_effect" \in DOMAIN result
    /\ CellMean(0, 0)[1] % CellMean(0, 0)[2] # 0
    /\ CellMean(1, 1)[1] % CellMean(1, 1)[2] # 0

----------------------------------------------------------------------------
(* Specification of one call of _analyze_heterogeneity *)

\* Promoted rows of the first store.
MaxPromotedRows == 7

\* Its non-promoted rows on hot days: none, or HotBase and up to MaxExtraRows more.
HotBase == 16

\* Its non-promoted rows on rainy days: none, or RainyBase and up to MaxExtraRows more.
RainyBase == 8

\* The rows of the second store, all promoted; or it has none.
SecondStoreRows == 32

\* One engineered row with weather and category columns.
FullRow(store, promo, hot, rainy, mild, revenue) ==
    [location_id |-> store, total_revenue |-> revenue, day_of_week |-> 1,
     unique_customers |-> 10, category_diversity |-> 3,
     has_promotion |-> promo, is_weekend |-> 0, is_holiday |-> 0,
     temperature_mean |-> 20, is_hot |-> hot, is_rainy |-> rainy, is_mild |-> mild,
     tea_drinks_orders |-> 4 + promo]

\* r without the cells of columns outside cols
Project(r, cols) == [c \in cols |-> r[c]]

HeteroColumns(weather) ==
    SalesColumns \cup BaseFeatureColumns \cup {"tea_drinks_orders"}
    \cup IF weather THEN WeatherFeatureColumns ELSE {}

HeteroPanels ==
    { [columns |-> HeteroColumns(w),
       rows |-> << [n |-> a, row |-> Project(FullRow(1, 1, 1, 0, 0, 130), HeteroColumns(w))],
                   [n |-> b, row |-> Project(FullRow(1, 0, 1, 0, 0, 100), HeteroColumns(w))],
                   [n |-> c, row |-> Project(FullRow(1, 0, 0, 1, 0, 90), HeteroColumns(w))],
                   [n |-> d, row |-> Project(FullRow(2, 1, 0, 0, 1, 110), HeteroColumns(w))] >>] :
        w \in BOOLEAN,
        a \in 0..MaxPromotedRows,
        b \in {0} \cup {HotBase + e : e \in 0..MaxExtraRows},
        c \in {0} \cup {RainyBase + e : e \in 0..MaxExtraRows},
        d \in {0, SecondStoreRows} }

InitHetero ==
    /\ pc = "call"
    /\ op = "_analyze_heterogeneity"
    /\ args = None
    /\ df \in HeteroPanels
    /\ estimator = None
    /\ weather_df = None
    /\ result = None
    /\ fit_calls = 0
    /\ calls = <<>>
    /\ EngineInit
    /\ ServiceInit

AnalyzeHeterogeneity ==
    /\ pc = "call"
    /\ op = "_analyze_heterogeneity"
    /\ LET r == _analyze_heterogeneity(df)
       IN  /\ pc' = IF r.raised THEN "raise" ELSE "return"
           /\ result' = r.value
    /\ UNCHANGED serviceVars
    /\ UNCHANGED <<op, args, df, weather_df, estimator, fit_calls, calls, engineVars>>

NextHetero == AnalyzeHeterogeneity

SpecHetero == InitHetero /\ [][NextHetero]_vars

----------------------------------------------------------------------------
(* Properties of the heterogeneity analyzer *)

\* The rows of d whose cells equal those of the record cond, counted directly.
CountRows(d, cond) ==
    SumSeq([i \in 1..Len(d.rows) |->
              IF \A c \in DOMAIN cond : d.rows[i].row[c] = cond[c]
              THEN d.rows[i].n ELSE 0])

StoreRows(id) == CountRows(df, [location_id |-> id])

StorePromotedRows(id) ==
    CountRows(df, [location_id |-> id, has_promotion |-> 1])

FlagRows(flag) ==
    IF flag \in df.columns THEN CountRows(df, flag :> 1) ELSE 0

FlagPromotedRows(flag) ==
    IF flag \in df.columns
    THEN CountRows(df, (flag :> 1) @@ [has_promotion |-> 1]) ELSE 0

StoreIds == {1, 2}

HeteroReturned == pc = "return" /\ op = "_analyze_heterogeneity"

\* C6: a store appears in promotion_by_store if and only if it has strictly
\* more than 30 rows and strictly more than 5 promoted rows (a store with
\* exactly 30 rows or exactly 5 promoted rows is omitted), and an included
\* store's sample_size is its row count.
C6_StoreGate ==
    HeteroReturned =>
        \A id \in StoreIds :
            /\ id \in DOMAIN result.promotion_by_store
                  <=> (StoreRows(id) > 30 /\ StorePromotedRows(id) > 5)
            /\ id \in DOMAIN result.promotion_by_store
                  => result.promotion_by_store[id].sample_size = StoreRows(id)

\* C6 witness: the first store has 31 rows, 6 of them promoted, and is
\* reported with sample_size 31.
C6_Witness ==
    /\ HeteroReturned
    /\ StoreRows(1) = 31 /\ StorePromotedRows(1) = 6
    /\ 1 \in DOMAIN result.promotion_by_store
    /\ result.promotion_by_store[1].sample_size = 31

\* A store with exactly 30 rows, 5 of them promoted, was analysed and omitted.
C6_OmittedAtThirty ==
    /\ HeteroReturned
    /\ StoreRows(1) = 30 /\ StorePromotedRows(1) = 5
    /\ 1 \notin DOMAIN result.promotion_by_store

\* C7 as stated: every weather flag with at least 20 rows set, at least 3 of
\* them promoted, has an entry in promotion_by_weather.
C7_AtLeastTwentyReported ==
    (HeteroReturned /\ "is_hot" \in df.columns) =>
        \A flag \in weather_conditions :
            (FlagRows(flag) >= 20 /\ FlagPromotedRows(flag) >= 3)
                => flag \in DOMAIN result.promotion_by_weather

\* C7 amended: a weather flag has an entry in promotion_by_weather if and only
\* if more than 20 rows have it set and more than 3 of those are promoted; a
\* flag with exactly 20 such rows or exactly 3 promoted rows is omitted.
C7_MoreThanTwentyReported ==
    (HeteroReturned /\ "is_hot" \in df.columns) =>
        \A flag \in weather_conditions :
            flag \in DOMAIN result.promotion_by_weather
                <=> (FlagRows(flag) > 20 /\ FlagPromotedRows(flag) > 3)

\* C7 witness: 21 hot rows, 4 of them promoted, are reported; the entry's
\* sample_size is 21.
C7_Witness ==
    /\ HeteroReturned
    /\ FlagRows("is_hot") = 21 /\ FlagPromotedRows("is_hot") = 4
    /\ "is_hot" \in DOMAIN result.promotion_by_weather
    /\ result.promotion_by_weather["is_hot"].sample_size = 21

----------------------------------------------------------------------------
(* Specification of one call of analyze_all_factors *)

FactorNames == {"has_promotion", "is_weekend", "is_holiday", "is_hot", "is_rainy"}

\* The factors analyze_all_factors estimates on the panel d.
FactorsIn(d) ==
    {factors_to_analyze(d)[i].name : i \in 1..Len(factors_to_analyze(d))} \cap d.columns

\* The column sets of the panels analysed: the engineered panel with and
\* without the weather columns, and panels of a data source that returned no
\* category_diversity or no unique_customers column.
RunColumnSets ==
    { HeteroColumns(TRUE), HeteroColumns(FALSE),
      HeteroColumns(TRUE) \ {"category_diversity"},
      HeteroColumns(FALSE) \ {"unique_customers"} }

\* The sizes of the four (is_weekend, has_promotion) row groups of such a panel.
RunGroupSizes == {0, MinCellCount + 1, BaseRows}

\* A row of the group (weekend, promo): rainy on weekends, hot on weekdays,
\* holidays on promotion days.
RunRow(weekend, promo) ==
    [FullRow(1 + weekend, promo, 1 - weekend, weekend, 0, 100 + 20 * promo + 10 * weekend)
        EXCEPT !.is_weekend = weekend, !.is_holiday = promo]

RunPanels ==
    { [columns |-> cols,
       rows |-> [i \in 1..4 |->
                   [n |-> size[<<(i - 1) \div 2, (i - 1) % 2>>],
                    row |-> Project(RunRow((i - 1) \div 2, (i - 1) % 2), cols)]]] :
        cols \in RunColumnSets, size \in [CellValues -> RunGroupSizes] }

\* What the library does for one factor of a run.
RunOutcomes ==
    { [fit |-> "raise", ate |-> 0, interval |-> "raise", ci_lower |-> 0, ci_upper |-> 0],
      [fit |-> "ok", ate |-> 1000, interval |-> "ok", ci_lower |-> 0 - 1000,
       ci_upper |-> 2000] }

Init ==
    /\ pc = "call"
    /\ op = "analyze_all_factors"
    /\ args = None
    /\ df \in RunPanels
    /\ estimator \in [FactorsIn(df) -> RunOutcomes]
    /\ weather_df = None
    /\ result = None
    /\ fit_calls = 0
    /\ calls = <<>>
    /\ EngineInit
    /\ ServiceInit

AnalyzeAllFactors ==
    /\ pc = "call"
    /\ op = "analyze_all_factors"
    /\ \E r \in {analyze_all_factors(df, estimator)} :
           /\ pc' = IF r.raised THEN "raise" ELSE "return"
           /\ result' = r.value
           /\ fit_calls' = r.fits
           /\ analysis_results' = IF r.raised THEN analysis_results ELSE r.value
           /\ calls' = Append(calls, [op |-> op, args |-> args, self |-> self,
                                      raised |-> r.raised, result |-> r.value])
    /\ UNCHANGED serviceVars
    /\ UNCHANGED <<op, args, df, weather_df, estimator, customer_data, enhanced_data>>

Next == AnalyzeAllFactors

Spec == Init /\ [][Next]_vars

----------------------------------------------------------------------------
(* Properties of analyze_all_factors *)

\* The factors, pairs and slices the run is to report on.
FactorsDue ==
    {f \in FactorNames : f \in df.columns
                          /\ (f \in BaseFeatureColumns \/ "is_hot" \in df.columns)}

PairsDue == {PairKey(p) : p \in PairsIn(df)}

AllUnitsReported ==
    /\ FactorsDue \subseteq DOMAIN result
    /\ "interactions" \in DOMAIN result
    /\ PairsDue \subseteq DOMAIN result.interactions
    /\ "heterogeneity" \in DOMAIN result
    /\ "promotion_by_store" \in DOMAIN result.heterogeneity

\* C1: a failure while estimating one factor, pair or slice is recorded as an
\* error marker for that unit only: no exception escapes analyze_all_factors
\* and every factor, pair and slice of the run has its entry in the returned
\* dictionary.
C1_FailuresIsolated ==
    (op = "analyze_all_factors" /\ pc # "call") =>
        /\ pc = "return"
        /\ AllUnitsReported

\* What holds of the code: when the panel has every column the units read,
\* nothing escapes, a factor whose fit raised or whose sample is too small has
\* an error marker, and every other unit has its entry.
C1_IsolatedWhenColumnsPresent ==
    (op = "analyze_all_factors" /\ pc # "call"
        /\ {"unique_customers", "category_diversity", "day_of_week", "total_revenue",
            "location_id"} \subseteq df.columns) =>
        /\ pc = "return"
        /\ AllUnitsReported
        /\ \A f \in FactorsDue :
              (estimator[f].fit = "raise" \/ nrows(df) < 50) <=> "error" \in DOMAIN result[f]

\* One factor's fit raised, the next factor's did not, and both are reported.
C1_FitFailureContained ==
    /\ op = "analyze_all_factors" /\ pc = "return"
    /\ result["has_promotion"] = [error |-> "EstimationFailure"]
    /\ "ate" \in DOMAIN result["is_weekend"]
    /\ "interaction_effect" \in DOMAIN result.interactions["is_weekend_x_has_promotion"]

----------------------------------------------------------------------------
(* 3. Feature builder: values and DataFrame operations *)

\* The frames the feature builder works on also carry dtypes, the dtype of
\* each column ("object", "int64", "float64", "datetime64"), and their row
\* groups have n = 1.  Every cell is a number, except in the columns of
\* TextColumns: a Timestamp is its day number (days since 1970-01-01), the
\* text "YYYY-MM-DD" of an object column is the number YYYYMMDD, the text of
\* the number k in an object column is Text(k), and a text that is no number
\* is NonNumeric.
TextColumns == {"state", "location_name"}

TextBase == 1000000

Text(k) == TextBase + k

IsNaN(c, v) == c \notin TextColumns /\ v = NaN

\* Timestamp(year, month, day) as a day number (the proleptic Gregorian
\* calendar pandas uses).
days_from_civil(y, m, d) ==
    LET yy  == IF m <= 2 THEN y - 1 ELSE y
        era == yy \div 400
        yoe == yy - era * 400
        mp  == IF m > 2 THEN m - 3 ELSE m + 9
        doy == (153 * mp + 2) \div 5 + d - 1
        doe == yoe * 365 + yoe \div 4 - yoe \div 100 + doy
    IN  era * 146097 + doe - 719468

\* Timestamp.year / .month / .day
civil_from_days(ts) ==
    LET z   == ts + 719468
        era == z \div 146097
        doe == z - era * 146097
        yoe == (doe - doe \div 1460 + doe \div 36524 - doe \div 146096) \div 365
        doy == doe - (365 * yoe + yoe \div 4 - yoe \div 100)
        mp  == (5 * doy + 2) \div 153
        m   == IF mp < 10 THEN mp + 3 ELSE mp - 9
    IN  [year  |-> yoe + era * 400 + (IF m <= 2 THEN 1 ELSE 0),
         month |-> m,
         day   |-> doy - (153 * mp + 2) \div 5 + 1]

\* The day of the week counted from Sunday: Sunday is 0, Saturday is 6.
dayofweek_from_sunday(ts) == (ts + 4) % 7

\* Timestamp.dayofweek: Monday is 0, Sunday is 6 (1970-01-01 was a Thursday).
dayofweek(ts) == (ts + 3) % 7

\* pd.to_datetime of one cell: a Timestamp stays, a date text is parsed, a
\* missing value becomes NaT.
to_datetime_cell(v, dtype) ==
    IF v = NaN \/ dtype = "datetime64" THEN v
    ELSE days_from_civil(v \div 10000, (v \div 100) % 100, v % 100)

\* df[col] = pd.to_datetime(df[col])
to_datetime(d, col) ==
    [d EXCEPT
        !.dtypes = [@ EXCEPT ![col] = "datetime64"],
        !.rows = [i \in 1..Len(d.rows) |->
                    [d.rows[i] EXCEPT !.row =
                        [@ EXCEPT ![col] = to_datetime_cell(@, d.dtypes[col])]]]]

\* pd.to_numeric(errors='coerce') of one cell: a number stays, the text of a
\* number is parsed, any other text becomes NaN.
to_numeric_cell(v, dtype) ==
    IF dtype # "object" \/ v = NaN THEN v
    ELSE IF v = NonNumeric THEN NaN
    ELSE v - TextBase

\* for col in cols: if col in df.columns: df[col] = pd.to_numeric(df[col], errors='coerce')
to_numeric(d, cols) ==
    [d EXCEPT
        !.dtypes = [c \in DOMAIN d.dtypes |->
                      IF c \in cols /\ d.dtypes[c] = "object" THEN "float64"
                      ELSE d.dtypes[c]],
        !.rows = [i \in 1..Len(d.rows) |->
                    [d.rows[i] EXCEPT !.row =
                        [c \in DOMAIN d.rows[i].row |->
                            IF c \in cols
                            THEN to_numeric_cell(d.rows[i].row[c], d.dtypes[c])
                            ELSE d.rows[i].row[c]]]]]

\* The frame d with the columns of the records feat[i] set in row i (columns
\* d already has are overwritten), each of dtype dt.
assign(d, names, dt, feat) ==
    [columns |-> d.columns \cup names,
     dtypes  |-> [c \in names |-> dt] @@ d.dtypes,
     rows    |-> [i \in 1..Len(d.rows) |->
                    [n |-> d.rows[i].n, row |-> feat[i] @@ d.rows[i].row]]]

\* (series > k).astype(int): a comparison with NaN is False
gt(v, k) == IF v # NaN /\ v > k THEN 1 ELSE 0

lt(v, k) == IF v # NaN /\ v < k THEN 1 ELSE 0

between(v, lo, hi) == IF v # NaN /\ v >= lo /\ v <= hi THEN 1 ELSE 0

\* df.fillna(0)
fillna0(d) ==
    [d EXCEPT !.rows =
        [i \in 1..Len(d.rows) |->
            [d.rows[i] EXCEPT !.row =
                [c \in DOMAIN d.rows[i].row |->
                    IF IsNaN(c, d.rows[i].row[c]) THEN 0 ELSE d.rows[i].row[c]]]]]

\* The rows before row i (after it, for bfill) whose cell of column c is valid.
ValidBefore(d, c, i) == {j \in 1..(i - 1) : ~IsNaN(c, d.rows[j].row[c])}

ValidAfter(d, c, i) == {j \in (i + 1)..Len(d.rows) : ~IsNaN(c, d.rows[j].row[c])}

Max(S) == CHOOSE x \in S : \A y \in S : y <= x

Min(S) == CHOOSE x \in S : \A y \in S : x <= y

\* df.fillna(method='ffill'): in the order of the rows of the frame, a missing
\* cell takes the last valid value above it in its column.
ffill(d) ==
    [d EXCEPT !.rows =
        [i \in 1..Len(d.rows) |->
            [d.rows[i] EXCEPT !.row =
                [c \in DOMAIN d.rows[i].row |->
                    IF IsNaN(c, d.rows[i].row[c]) /\ ValidBefore(d, c, i) # {}
                    THEN d.rows[Max(ValidBefore(d, c, i))].row[c]
                    ELSE d.rows[i].row[c]]]]]

\* df.fillna(method='bfill'): a missing cell takes the first valid value below it.
bfill(d) ==
    [d EXCEPT !.rows =
        [i \in 1..Len(d.rows) |->
            [d.rows[i] EXCEPT !.row =
                [c \in DOMAIN d.rows[i].row |->
                    IF IsNaN(c, d.rows[i].row[c]) /\ ValidAfter(d, c, i) # {}
                    THEN d.rows[Min(ValidAfter(d, c, i))].row[c]
                    ELSE d.rows[i].row[c]]]]]

RECURSIVE Flatten(_)
Flatten(ss) == IF ss = <<>> THEN <<>> ELSE Head(ss) \o Flatten(Tail(ss))

\* left.merge(right, on=keys, how='left'): every row of left, in order, once
\* per row of right with the same key cells, and once with the columns of
\* right missing when there is none.  A column both frames have outside the
\* keys is kept twice, as name_x (left) and name_y (right).
merge(left, right, keys) ==
    LET overlap == (left.columns \cap right.columns) \ keys
        lkeep   == left.columns \ overlap
        rkeep   == right.columns \ (overlap \cup keys)
        xs      == {c \o "_x" : c \in overlap}
        ys      == {c \o "_y" : c \in overlap}
        base(x, suffix) == CHOOSE c \in overlap : c \o suffix = x
        joined(l, r) ==
            [c \in lkeep |-> l[c]] @@ [c \in rkeep |-> r[c]]
                @@ [x \in xs |-> l[base(x, "_x")]] @@ [y \in ys |-> r[base(y, "_y")]]
        unmatched(l) ==
            [c \in lkeep |-> l[c]] @@ [c \in rkeep |-> NaN]
                @@ [x \in xs |-> l[base(x, "_x")]] @@ [y \in ys |-> NaN]
        matches(l) == SelectSeq(right.rows, LAMBDA g : \A k \in keys : g.row[k] = l[k])
        rowsOf(l)  ==
            IF matches(l) = <<>> THEN << [n |-> 1, row |-> unmatched(l)] >>
            ELSE [j \in 1..Len(matches(l)) |-> [n |-> 1, row |-> joined(l, matches(l)[j].row)]]
    IN  [columns |-> lkeep \cup rkeep \cup xs \cup ys,
         dtypes  |-> [c \in lkeep |-> left.dtypes[c]] @@ [c \in rkeep |-> right.dtypes[c]]
                        @@ [x \in xs |-> left.dtypes[base(x, "_x")]]
                        @@ [y \in ys |-> right.dtypes[base(y, "_y")]],
         rows    |-> Flatten([i \in 1..Len(left.rows) |-> rowsOf(left.rows[i].row)])]

----------------------------------------------------------------------------
(* 3. Feature builder: the stages *)

\* The k-th smallest (k = 0 is the smallest) of the numbers of the sequence s.
Kth(s, k) ==
    CHOOSE v \in {s[j] : j \in 1..Len(s)} :
        /\ Cardinality({j \in 1..Len(s) : s[j] < v}) <= k
        /\ k < Cardinality({j \in 1..Len(s) : s[j] <= v})

\* Four times Series.quantile(0.25) of the numbers of s (s not empty): the
\* linear interpolation between the two order statistics around (n - 1) / 4.
quantile25x4(s) ==
    LET i  == (Len(s) - 1) \div 4
        r  == (Len(s) - 1) % 4
        lo == Kth(s, i)
        hi == IF r = 0 THEN lo ELSE Kth(s, i + 1)
    IN  4 * lo + r * (hi - lo)

\* The valid total_revenue cells of the rows of the location of row i.
RevenuesOfLocation(d, i) ==
    LET same == SelectSeq(d.rows,
                    LAMBDA g : g.row["location_id"] = d.rows[i].row["location_id"]
                               /\ g.row["total_revenue"] # NaN)
    IN  [j \in 1..Len(same) |-> same[j].row["total_revenue"]]

\* x < x.quantile(0.25) within the location of the row; the transform leaves a
\* row without location_id missing.
low_performance(d, i) ==
    LET x == d.rows[i].row["total_revenue"] IN
    IF d.rows[i].row["location_id"] = NaN THEN NaN
    ELSE IF x = NaN THEN 0
    ELSE IF 4 * x < quantile25x4(RevenuesOfLocation(d, i)) THEN 1 ELSE 0

\* total_discount / (total_revenue + total_discount + 1e-3), in thousandths
\* rounded down; NaN when either cell is missing.
promotion_intensity(revenue, discount) ==
    IF revenue = NaN \/ discount = NaN THEN NaN
    ELSE (1000 * 1000 * discount) \div (1000 * (revenue + discount) + 1)

PromotionColumns == {"has_promotion", "promotion_intensity", "has_bogo", "low_performance"}

\* _create_promotion_features raises KeyError when one of these is absent.
PromotionInputs == {"total_revenue", "total_discount", "bogo_orders"}

\* The four promotion columns, computed from the converted frame num.
promotion_features(num) ==
    assign(num, PromotionColumns, "int64",
           [i \in 1..Len(num.rows) |->
               [has_promotion       |-> gt(num.rows[i].row["total_discount"], 0),
                promotion_intensity |-> promotion_intensity(num.rows[i].row["total_revenue"],
                                                            num.rows[i].row["total_discount"]),
                has_bogo            |-> gt(num.rows[i].row["bogo_orders"], 0),
                low_performance     |-> IF "location_id" \in num.columns
                                        THEN low_performance(num, i) ELSE 0]])

\* _create_promotion_features(df), for a df with the columns of PromotionInputs
_create_promotion_features(d) ==
    promotion_features(to_numeric(d, {"total_revenue", "total_discount", "bogo_orders"}))

\* self.us_holidays = holidays.US(): the dates of the federal holidays of 2024,
\* the year of the dates of the model.
us_holidays ==
    { days_from_civil(2024, md[1], md[2]) :
        md \in { <<1, 1>>, <<1, 15>>, <<2, 19>>, <<5, 27>>, <<6, 19>>, <<7, 4>>,
                 <<9, 2>>, <<10, 14>>, <<11, 11>>, <<11, 28>>, <<12, 25>> } }

flag(b) == IF b THEN 1 ELSE 0

CalendarColumns ==
    {"is_weekend", "is_monday", "is_friday", "is_member_day", "is_holiday",
     "is_holiday_week", "is_summer", "is_winter", "is_spring", "is_fall",
     "is_valentine", "is_christmas_season"}

\* The calendar flags of the Timestamp ts.
calendar_flags(ts, dow, ymd) ==
    [is_weekend          |-> flag(dow \in {5, 6}),
     is_monday           |-> flag(dow = 0),
     is_friday           |-> flag(dow = 4),
     is_member_day       |-> flag(dow = 2),
     is_holiday          |-> flag(ts \in us_holidays),
     is_holiday_week     |-> flag(\E k \in (0 - 3)..3 : ts + k \in us_holidays),
     is_summer           |-> flag(ymd.month \in {6, 7, 8}),
     is_winter           |-> flag(ymd.month \in {12, 1, 2}),
     is_spring           |-> flag(ymd.month \in {3, 4, 5}),
     is_fall             |-> flag(ymd.month \in {9, 10, 11}),
     is_valentine        |-> flag(ymd.month = 2 /\ ymd.day = 14),
     is_christmas_season |-> flag(ymd.month = 12 /\ ymd.day >= 15)]

\* _create_calendar_features(df), df['date'] a datetime column
_create_calendar_features(d) ==
    assign(d, CalendarColumns, "int64",
           [i \in 1..Len(d.rows) |->
               calendar_flags(d.rows[i].row["date"], dayofweek(d.rows[i].row["date"]),
                              civil_from_days(d.rows[i].row["date"]))])

weather_numeric_cols ==
    {"temperature_max", "temperature_min", "temperature_mean", "precipitation",
     "rain", "snow", "wind_speed", "sunshine_hours"}

\* The columns the weather flags are computed from.
WeatherFlagInputs ==
    {"temperature_max", "precipitation", "snow", "sunshine_hours", "wind_speed",
     "temperature_mean"}

WeatherFlagColumns ==
    {"is_hot", "is_cold", "is_mild", "is_rainy", "is_heavy_rain", "is_snowy",
     "is_sunny", "is_windy", "comfort_index"}

\* abs(temperature_mean - 20) * (-0.1) + sunshine_hours * 0.1
\*   - precipitation * 0.05 - wind_speed * 0.02, in hundredths
comfort_index(tmean, sunshine, precipitation, wind) ==
    IF NaN \in {tmean, sunshine, precipitation, wind} THEN NaN
    ELSE 10 * sunshine - 10 * Abs(tmean - 20) - 5 * precipitation - 2 * wind

\* weather_df after the in-place conversions of _create_weather_features:
\* the caller's object, whose date column is now datetime64 and whose numeric
\* columns went through pd.to_numeric.
weather_in_place(w) == to_numeric(to_datetime(w, "date"), weather_numeric_cols)

\* The weather flags of a merged row r.
weather_flags(r) ==
    [is_hot        |-> gt(r["temperature_max"], 30),
     is_cold       |-> lt(r["temperature_max"], 10),
     is_mild       |-> between(r["temperature_max"], 15, 25),
     is_rainy      |-> gt(r["precipitation"], 2),
     is_heavy_rain |-> gt(r["precipitation"], 10),
     is_snowy      |-> gt(r["snow"], 0),
     is_sunny      |-> gt(r["sunshine_hours"], 8),
     is_windy      |-> gt(r["wind_speed"], 20),
     comfort_index |-> comfort_index(r["temperature_mean"], r["sunshine_hours"],
                                     r["precipitation"], r["wind_speed"])]

\* Lines 473-493: the flags of the merged and filled frame, then fillna(0).
\* merged['temperature_max'] and the like raise KeyError for an absent column.
weather_flagged(merged, converted) ==
    IF ~(WeatherFlagInputs \subseteq merged.columns)
    THEN [raised |-> TRUE, df |-> None, weather_df |-> converted]
    ELSE [raised |-> FALSE,
          df |-> fillna0(assign(merged, WeatherFlagColumns, "int64",
                                [i \in 1..Len(merged.rows) |->
                                    weather_flags(merged.rows[i].row)])),
          weather_df |-> converted]

\* Lines 469-471: the left merge on (date, state), then ffill and bfill.  The
\* merge raises KeyError when a key is not a column of both frames.
weather_merged(d, converted) ==
    IF ~({"date", "state"} \subseteq d.columns) \/ "state" \notin converted.columns
    THEN [raised |-> TRUE, df |-> None, weather_df |-> converted]
    ELSE weather_flagged(bfill(ffill(merge(d, converted, {"date", "state"}))), converted)

\* The guard of the weather stage, without its test of the length.
weather_absent_none_only(w) == w = None

\* "if weather_df is None or len(weather_df) == 0: return df"
weather_absent(w) == w = None \/ Len(w.rows) = 0

\* _create_weather_features(df, weather_df).  Returns [raised, df, weather_df]:
\* raised when a KeyError escapes, df the frame returned, weather_df the
\* caller's weather object as the method leaves it.
_create_weather_features(d, w) ==
    IF weather_absent(w) THEN [raised |-> FALSE, df |-> d, weather_df |-> w]
    ELSE IF "date" \notin w.columns THEN [raised |-> TRUE, df |-> None, weather_df |-> w]
    ELSE weather_merged(d, weather_in_place(w))

\* The flag each product column multiplies has_promotion with.
InteractionFactor ==
    [weekend_promotion |-> "is_weekend", holiday_promotion |-> "is_holiday",
     rainy_promotion |-> "is_rainy", hot_promotion |-> "is_hot"]

\* The product columns added: the weather products only when the weather
\* flags are columns.
InteractionColumns(d) ==
    {"weekend_promotion", "holiday_promotion"}
        \cup (IF "is_rainy" \in d.columns THEN {"rainy_promotion"} ELSE {})
        \cup (IF "is_hot" \in d.columns THEN {"hot_promotion"} ELSE {})

\* _create_interaction_features(df): the products with has_promotion
_create_interaction_features(d) ==
    assign(d, InteractionColumns(d), "int64",
           [i \in 1..Len(d.rows) |->
               [c \in InteractionColumns(d) |->
                   d.rows[i].row[InteractionFactor[c]] * d.rows[i].row["has_promotion"]]])

\* The columns of self.customer_data that _create_customer_features aggregates.
CustomerInputs ==
    {"location_id", "high_value_customer", "loyal", "churned", "total_spent",
     "avg_order_value"}

CustomerColumns ==
    {"high_value_customers", "loyal_customers", "churned_customers",
     "avg_customer_spent", "avg_customer_order_value"}

RECURSIVE SortedSeq(_)
SortedSeq(S) == IF S = {} THEN <<>> ELSE <<Min(S)>> \o SortedSeq(S \ {Min(S)})

\* 'mean' of a column of a group, in hundredths rounded down; NaN for no value.
group_mean(g, col) ==
    IF colcount(g, col) = 0 THEN NaN ELSE (100 * colsum(g, col)) \div colcount(g, col)

\* customer_data.groupby('location_id').agg({...}).reset_index() with the
\* columns renamed: one row per location id (rows without one are dropped),
\* in the order of the ids.
customer_summary(customers) ==
    LET ids == SortedSeq({customers.rows[i].row["location_id"] : i \in 1..Len(customers.rows)}
                            \ {NaN})
    IN  [columns |-> {"location_id"} \cup CustomerColumns,
         dtypes  |-> [c \in {"location_id"} \cup CustomerColumns |->
                        IF c = "location_id" THEN customers.dtypes[c] ELSE "float64"],
         rows    |-> [k \in 1..Len(ids) |->
                        LET g == Where(customers, [location_id |-> ids[k]]) IN
                        [n |-> 1,
                         row |-> [location_id              |-> ids[k],
                                  high_value_customers     |-> colsum(g, "high_value_customer"),
                                  loyal_customers          |-> colsum(g, "loyal"),
                                  churned_customers        |-> colsum(g, "churned"),
                                  avg_customer_spent       |-> group_mean(g, "total_spent"),
                                  avg_customer_order_value |-> group_mean(g, "avg_order_value")]]]]

\* _create_customer_features(df), customers being self.customer_data.
\* Returns [raised, df].
_create_customer_features(d, customers) ==
    IF customers = None THEN [raised |-> FALSE, df |-> d]
    ELSE IF ~(CustomerInputs \subseteq customers.columns) \/ "location_id" \notin d.columns
    THEN [raised |-> TRUE, df |-> None]
    ELSE [raised |-> FALSE,
          df |-> fillna0(merge(d, customer_summary(customers), {"location_id"}))]

\* "df = sales_df.copy()", in a builder that goes on from the panel the
\* previous call left in self.enhanced_data.
working_frame_kept(engine, sales_df) ==
    IF engine.enhanced_data # None THEN engine.enhanced_data ELSE sales_df

\* "df = sales_df.copy()": the frame the stages work on is a copy of the
\* argument, whatever the fields of the engine hold.
working_frame(engine, sales_df) == sales_df

\* Stage 5 done: the frame is returned, or the exception of the stage escapes.
after_customer(customer, w) ==
    IF customer.raised
    THEN [raised |-> TRUE, value |-> None, weather_df |-> w]
    ELSE [raised |-> FALSE, value |-> customer.df, weather_df |-> w]

\* Stage 3 done: stages 4 and 5 run on its frame, or its exception escapes.
after_weather(engine, weather) ==
    IF weather.raised
    THEN [raised |-> TRUE, value |-> None, weather_df |-> weather.weather_df]
    ELSE after_customer(
            _create_customer_features(_create_interaction_features(weather.df),
                                      engine.customer_data),
            weather.weather_df)

\* create_all_features(sales_df, weather_df) on the engine whose fields are the
\* record engine.  Returns [raised, value, weather_df]: raised when an
\* exception escapes, value the frame returned (and stored in
\* self.enhanced_data), weather_df the caller's weather object after the call.
\* The caller's sales_df is copied first and is not touched.
create_all_features(engine, sales_df, w) ==
    IF "date" \notin working_frame(engine, sales_df).columns
        \/ ~(PromotionInputs \subseteq working_frame(engine, sales_df).columns)
    THEN [raised |-> TRUE, value |-> None, weather_df |-> w]
    ELSE after_weather(engine,
            _create_weather_features(
                _create_calendar_features(
                    _create_promotion_features(
                        to_datetime(working_frame(engine, sales_df), "date"))),
                w))

----------------------------------------------------------------------------
(* The engine: its fields, and the calls a caller makes on it *)

MaxCalls == 2

SalesDtypes ==
    [date |-> "object", location_id |-> "int64", state |-> "object",
     total_revenue |-> "float64", total_discount |-> "float64", bogo_orders |-> "int64"]

SalesRow(date, location, state, revenue, discount, bogo) ==
    [n |-> 1,
     row |-> [date |-> date, location_id |-> location, state |-> state,
              total_revenue |-> revenue, total_discount |-> discount,
              bogo_orders |-> bogo]]

\* The observation frames a caller passes: two stores in two states, one of
\* them on a holiday Thursday and on a Saturday; and a frame whose
\* total_discount column holds text.
SalesFrames ==
    { [columns |-> DOMAIN SalesDtypes, dtypes |-> SalesDtypes,
       rows |-> << SalesRow(20240705, 2, "TX", 300, 20, 1),
                   SalesRow(20240704, 1, "CA", 100, 10, 0),
                   SalesRow(20240706, 1, "CA", 200, 0, 2) >>],
      [columns |-> DOMAIN SalesDtypes,
       dtypes |-> [SalesDtypes EXCEPT !["total_discount"] = "object"],
       rows |-> << SalesRow(20240706, 2, "TX", 300, Text(20), 1),
                   SalesRow(20240707, 2, "TX", 250, NonNumeric, 0) >>] }

WeatherDtypes ==
    [c \in {"date", "state"} \cup weather_numeric_cols |->
        IF c = "date" THEN "datetime64" ELSE IF c = "state" THEN "object" ELSE "float64"]

WeatherRow(date, state, tmax, precipitation) ==
    [n |-> 1,
     row |-> [date |-> date, state |-> state, temperature_max |-> tmax,
              temperature_min |-> 12, temperature_mean |-> 22,
              precipitation |-> precipitation, rain |-> precipitation, snow |-> 0,
              wind_speed |-> 10, sunshine_hours |-> 9]]

\* A frame without the column col.
drop(d, col) ==
    [columns |-> d.columns \ {col},
     dtypes  |-> [c \in d.columns \ {col} |-> d.dtypes[c]],
     rows    |-> [i \in 1..Len(d.rows) |->
                    [n |-> d.rows[i].n,
                     row |-> [c \in d.columns \ {col} |-> d.rows[i].row[c]]]]]

\* Weather of California on two days, as the weather fetch returns it.
FetchedWeather ==
    [columns |-> DOMAIN WeatherDtypes, dtypes |-> WeatherDtypes,
     rows |-> << WeatherRow(days_from_civil(2024, 7, 4), "CA", 32, 0),
                 WeatherRow(days_from_civil(2024, 7, 6), "CA", 20, 5) >>]

\* The same weather read from a file: the dates and temperature_max are text.
TextWeather ==
    [columns |-> DOMAIN WeatherDtypes,
     dtypes |-> [WeatherDtypes EXCEPT !["date"] = "object", !["temperature_max"] = "object"],
     rows |-> << WeatherRow(20240704, "CA", Text(32), 0),
                 WeatherRow(20240706, "CA", NonNumeric, 5) >>]

\* The weather frames a caller passes (besides None): fetched weather, the
\* same as text, no rows, and a source without a temperature_max column.
WeatherFrames ==
    { FetchedWeather, TextWeather, [FetchedWeather EXCEPT !.rows = <<>>],
      drop(FetchedWeather, "temperature_max") }

CustomerRow(location, high_value, loyal, churned, spent, order_value) ==
    [n |-> 1,
     row |-> [location_id |-> location, high_value_customer |-> high_value,
              loyal |-> loyal, churned |-> churned, total_spent |-> spent,
              avg_order_value |-> order_value]]

\* Customers of store 1, and one customer without a store.
LoadedCustomers ==
    [columns |-> CustomerInputs,
     dtypes |-> [c \in CustomerInputs |-> "float64"],
     rows |-> << CustomerRow(1, 1, 1, 0, 500, 25), CustomerRow(1, 0, 1, 1, 101, NaN),
                 CustomerRow(NaN, 1, 0, 0, 70, 7) >>]

\* What the customer_profile query returns when it succeeds.
CustomerFrames == {LoadedCustomers}

\* pd.DataFrame(): what load_customer_profile_data returns when the query fails
EmptyFrame == [columns |-> {}, dtypes |-> EmptyDict, rows |-> <<>>]

\* The panels analyze_all_factors is called on: a full panel, and a panel of
\* a source without category_diversity.
EnginePanels ==
    { p \in RunPanels :
        /\ \A i \in 1..4 : p.rows[i].n = BaseRows
        /\ p.columns \in {HeteroColumns(TRUE), HeteroColumns(TRUE) \ {"category_diversity"}} }

\* The library's outcome for a factor: the fit and the interval succeed.
FitSucceeds == CHOOSE o \in RunOutcomes : o.fit = "ok"

InitEngine ==
    /\ pc = "return"
    /\ op = "__init__"
    /\ args = None
    /\ df = None
    /\ weather_df = None
    /\ estimator = None
    /\ result = None
    /\ fit_calls = 0
    /\ calls = <<>>
    /\ EngineInit
    /\ ServiceInit

\* The frames a caller passes as sales_df: observation rows, or the panel the
\* last create_all_features returned.
SalesChoices == SalesFrames \cup (IF enhanced_data = None THEN {} ELSE {enhanced_data})

\* A caller calls create_all_features(sales_df, weather_df): on fresh frames,
\* on the panel the previous call returned, or on the weather object it
\* passed to the previous call.
CallCreateAllFeatures ==
    /\ pc # "call"
    /\ Len(calls) < MaxCalls
    /\ \E s \in SalesChoices, w \in WeatherFrames \cup {None, weather_df} :
          /\ df' = s
          /\ weather_df' = w
          /\ args' = [sales_df |-> s, weather_df |-> w]
    /\ pc' = "call"
    /\ op' = "create_all_features"
    /\ estimator' = None
    /\ result' = None
    /\ fit_calls' = 0
    /\ UNCHANGED serviceVars
    /\ UNCHANGED <<calls, customer_data, enhanced_data, analysis_results>>

\* A caller calls analyze_all_factors(df): on a panel, or on the panel the
\* last create_all_features left in enhanced_data.
CallAnalyzeAllFactors ==
    /\ pc # "call"
    /\ Len(calls) < MaxCalls
    /\ \E p \in EnginePanels \cup (IF enhanced_data = None THEN {} ELSE {enhanced_data}) :
          /\ df' = p
          /\ estimator' = [f \in FactorsIn(p) |-> FitSucceeds]
          /\ args' = [df |-> p, estimator |-> [f \in FactorsIn(p) |-> FitSucceeds]]
    /\ pc' = "call"
    /\ op' = "analyze_all_factors"
    /\ result' = None
    /\ fit_calls' = 0
    /\ UNCHANGED serviceVars
    /\ UNCHANGED <<weather_df, calls, customer_data, enhanced_data, analysis_results>>

\* create_all_features runs: the panel is returned and kept in
\* self.enhanced_data, the caller's weather object is converted in place.
CreateAllFeatures ==
    /\ pc = "call"
    /\ op = "create_all_features"
    /\ \E r \in {create_all_features(self, df, weather_df)} :
           /\ pc' = IF r.raised THEN "raise" ELSE "return"
           /\ result' = r.value
           /\ weather_df' = r.weather_df
           /\ enhanced_data' = IF r.raised THEN enhanced_data ELSE r.value
           /\ calls' = Append(calls, [op |-> op, args |-> args, self |-> self,
                                      raised |-> r.raised, result |-> r.value])
    /\ UNCHANGED serviceVars
    /\ UNCHANGED <<op, args, df, estimator, fit_calls, customer_data, analysis_results>>

\* load_customer_profile_data(start_date, end_date): the query returns a frame,
\* kept in self.customer_data, or fails, and an empty frame is returned.
LoadCustomerProfileData ==
    /\ pc # "call"
    /\ \E ok \in BOOLEAN, customer_df \in CustomerFrames :
          /\ customer_data' = IF ok THEN customer_df ELSE customer_data
          /\ result' = IF ok THEN customer_df ELSE EmptyFrame
    /\ pc' = "return"
    /\ op' = "load_customer_profile_data"
    /\ args' = None
    /\ UNCHANGED serviceVars
    /\ UNCHANGED <<df, weather_df, estimator, fit_calls, calls, enhanced_data,
                   analysis_results>>

NextEngine ==
    \/ CallCreateAllFeatures
    \/ CreateAllFeatures
    \/ CallAnalyzeAllFactors
    \/ AnalyzeAllFactors
    \/ LoadCustomerProfileData

SpecEngine == InitEngine /\ [][NextEngine]_vars

----------------------------------------------------------------------------
(* Properties of the engine *)

\* The pairs of calls of one method with equal arguments, the first made
\* before the second.
SameCall(i, j) ==
    /\ i < j
    /\ calls[i].op = calls[j].op
    /\ calls[i].args = calls[j].args

SameOutcome(i, j) ==
    /\ calls[i].raised = calls[j].raised
    /\ calls[i].result = calls[j].result

C8_LoadChangesResult ==
    \E i, j \in 1..Len(calls) :
        /\ SameCall(i, j)
        /\ calls[i].op = "create_all_features"
        /\ ~calls[i].raised /\ ~calls[j].raised
        /\ calls[i].self.customer_data = None
        /\ CustomerColumns \cap calls[i].result.columns = {}
        /\ CustomerColumns \subseteq calls[j].result.columns

\* Two calls of analyze_all_factors with equal arguments on engines whose
\* fields differ return equal dictionaries.
C8_AnalysisKeepsNoState ==
    \A i, j \in 1..Len(calls) :
        (SameCall(i, j) /\ calls[i].op = "analyze_all_factors") => SameOutcome(i, j)

\* C9: create_all_features leaves both of its inputs unchanged: after the call
\* the observation frame and the weather frame passed in have the columns,
\* the dtypes and the values they had before the call.
C9_InputsUnchanged ==
    (op = "create_all_features" /\ pc # "call") =>
        /\ df = args.sales_df
        /\ weather_df = args.weather_df

\* What holds of the code: the observation frame is never touched, and the
\* weather frame is untouched when it is None or has no rows.
C9_SalesUnchanged ==
    (op = "create_all_features" /\ pc # "call") =>
        /\ df = args.sales_df
        /\ (args.weather_df = None \/ weather_df.rows = <<>>) => weather_df = args.weather_df

\* A weather frame handed over with text dates comes back with Timestamps.
C9_WeatherConverted ==
    /\ op = "create_all_features" /\ pc = "return"
    /\ args.weather_df # None
    /\ args.weather_df.rows # <<>>
    /\ args.weather_df.dtypes["date"] = "object"
    /\ weather_df.dtypes["date"] = "datetime64"
    /\ weather_df.rows[1].row["date"] # args.weather_df.rows[1].row["date"]

\* The columns of the stages that are not optional.
RequiredStageColumns ==
    PromotionColumns \cup CalendarColumns \cup {"weekend_promotion", "holiday_promotion"}

\* C10: when an optional stage of create_all_features (weather, customer)
\* raises or its input is absent, the stage is skipped: create_all_features
\* returns the panel of the remaining stages and no exception escapes.
C10_OptionalStageSkipped ==
    (op = "create_all_features" /\ pc # "call") =>
        /\ pc = "return"
        /\ RequiredStageColumns \subseteq result.columns

\* What holds of the code: an absent input (weather None or without rows, no
\* customer_data loaded) skips its stage.
C10_AbsentInputSkipped ==
    (op = "create_all_features" /\ pc # "call"
        /\ args.sales_df \in SalesFrames
        /\ (args.weather_df = None \/ args.weather_df.rows = <<>>)) =>
        /\ pc = "return"
        /\ RequiredStageColumns \subseteq result.columns
        /\ WeatherFlagColumns \cap result.columns = {}
        /\ calls[Len(calls)].self.customer_data = None => CustomerColumns \cap result.columns = {}

\* The weather stage raised on a frame without temperature_max and the
\* exception left create_all_features.
C10_WeatherStageEscapes ==
    /\ op = "create_all_features" /\ pc = "raise"
    /\ args.weather_df # None
    /\ args.weather_df.rows # <<>>
    /\ "temperature_max" \notin args.weather_df.columns

\* The weather flags and the products that depend on them.
WeatherDerivedColumns == WeatherFlagColumns \cup {"rainy_promotion", "hot_promotion"}

\* C11: when the weather input is absent (None or without rows), the panel
\* create_all_features returns for observation rows has none of the weather
\* flags and neither rainy_promotion nor hot_promotion, and it has
\* weekend_promotion and holiday_promotion.
C11_NoWeatherColumnsWhenAbsent ==
    (op = "create_all_features" /\ pc # "call"
        /\ (args.weather_df = None \/ args.weather_df.rows = <<>>)
        /\ WeatherDerivedColumns \cap args.sales_df.columns = {}) =>
        /\ pc = "return"
        /\ WeatherDerivedColumns \cap result.columns = {}
        /\ {"weekend_promotion", "holiday_promotion"} \subseteq result.columns

\* A call with a weather frame that has no rows returned.
C11_Witness ==
    /\ op = "create_all_features" /\ pc = "return"
    /\ args.weather_df # None
    /\ args.weather_df.rows = <<>>
    /\ WeatherDerivedColumns \cap args.sales_df.columns = {}
    /\ "weekend_promotion" \in result.columns

\* A call without a weather frame returned.
C11_NoneSkipped ==
    /\ op = "create_all_features" /\ pc = "return"
    /\ args.weather_df = None
    /\ "holiday_promotion" \in result.columns
    /\ "is_hot" \notin result.columns

\* The columns create_all_features derives.
DerivedColumns ==
    PromotionColumns \cup CalendarColumns \cup WeatherFlagColumns \cup CustomerColumns
        \cup {"weekend_promotion", "holiday_promotion", "rainy_promotion", "hot_promotion"}

\* Call j applies create_all_features to the panel call i returned, with the
\* same weather frame and the same customer_data.
Reapplied(i, j) ==
    /\ i < j
    /\ calls[i].op = "create_all_features" /\ calls[j].op = "create_all_features"
    /\ ~calls[i].raised
    /\ calls[j].args.sales_df = calls[i].result
    /\ calls[j].args.weather_df = calls[i].args.weather_df
    /\ calls[j].self.customer_data = calls[i].self.customer_data

\* The two panels have the same columns and rows with the same derived cells.
SameDerived(a, b) ==
    /\ a.columns = b.columns
    /\ Len(a.rows) = Len(b.rows)
    /\ \A k \in 1..Len(a.rows) : \A c \in DerivedColumns \cap a.columns :
          a.rows[k].row[c] = b.rows[k].row[c]

\* C12: create_all_features is idempotent on its own output: applied, with
\* the same weather and customer inputs, to a panel it returned, it returns a
\* panel with the same columns (none duplicated or renamed with a suffix) and
\* the same value in every derived column.
C12_Idempotent ==
    \A i, j \in 1..Len(calls) :
        Reapplied(i, j) => (~calls[j].raised /\ SameDerived(calls[i].result, calls[j].result))

\* What holds of the code: the stages that merge nothing are idempotent, so
\* the panel is reproduced when there is neither weather nor customer data.
C12_IdempotentWithoutMerge ==
    \A i, j \in 1..Len(calls) :
        (Reapplied(i, j) /\ weather_absent(calls[i].args.weather_df)
            /\ calls[i].self.customer_data = None)
        => (~calls[j].raised /\ SameDerived(calls[i].result, calls[j].result))

\* The second application raised on the weather columns the first one added.
C12_WeatherReappliedRaises ==
    \E i, j \in 1..Len(calls) :
        /\ Reapplied(i, j)
        /\ "temperature_max" \in calls[i].result.columns
        /\ calls[j].raised

\* The second application returned the customer columns twice, with suffixes.
C12_CustomerColumnsSuffixed ==
    \E i, j \in 1..Len(calls) :
        /\ Reapplied(i, j)
        /\ ~calls[j].raised
        /\ "loyal_customers" \in calls[i].result.columns
        /\ "loyal_customers" \notin calls[j].result.columns
        /\ {"loyal_customers_x", "loyal_customers_y"} \subseteq calls[j].result.columns

----------------------------------------------------------------------------
(* One call of create_all_features on observation rows in any order *)

FeatureRows == 3

\* The days of the observation rows: a Tuesday, the Thursday of the 4th of
\* July and a Saturday, as the texts '2024-07-02', '2024-07-04', '2024-07-06'.
FeatureDates == {20240702, 20240704, 20240706}

\* total_discount of a row: missing, a refund, none, a discount.
FeatureDiscounts == {NaN, 0 - 5, 0, 20}

\* The observation frames of store 1: FeatureRows rows in any order of days.
FeatureFrames ==
    { [columns |-> DOMAIN SalesDtypes, dtypes |-> SalesDtypes,
       rows |-> [i \in 1..FeatureRows |-> SalesRow(dates[i], 1, "CA", 100, discounts[i], 0)]] :
        dates \in [1..FeatureRows -> FeatureDates],
        discounts \in [1..FeatureRows -> FeatureDiscounts] }

\* Weather of California on the Tuesday (hot, dry) and on the Saturday (mild,
\* rainy): the Thursday has no weather row.
PartialWeather ==
    [columns |-> DOMAIN WeatherDtypes, dtypes |-> WeatherDtypes,
     rows |-> << WeatherRow(days_from_civil(2024, 7, 2), "CA", 32, 0),
                 WeatherRow(days_from_civil(2024, 7, 6), "CA", 20, 5) >>]

\* Weather of another state only: no observation row has a weather row.
OtherStateWeather ==
    [columns |-> DOMAIN WeatherDtypes, dtypes |-> WeatherDtypes,
     rows |-> << WeatherRow(days_from_civil(2024, 7, 4), "TX", 35, 12) >>]

FeatureWeather == {None, PartialWeather, OtherStateWeather}

\* An engine whose customer data is loaded is called once.
InitFeatures ==
    /\ pc = "call"
    /\ op = "create_all_features"
    /\ \E s \in FeatureFrames, w \in FeatureWeather :
          /\ df = s
          /\ weather_df = w
          /\ args = [sales_df |-> s, weather_df |-> w]
    /\ estimator = None
    /\ result = None
    /\ fit_calls = 0
    /\ calls = <<>>
    /\ customer_data = LoadedCustomers
    /\ enhanced_data = None
    /\ analysis_results = EmptyDict
    /\ ServiceInit

NextFeatures == CreateAllFeatures

SpecFeatures == InitFeatures /\ [][NextFeatures]_vars

\* The call of create_all_features returned a panel built with weather.
BuiltWithWeather ==
    op = "create_all_features" /\ pc = "return" /\ ~weather_absent(args.weather_df)

\* The value of weather field c in the weather row of (date, state), NaN when
\* there is no such row.
WeatherOn(w, date, state, c) ==
    IF \E k \in 1..Len(w.rows) : w.rows[k].row["date"] = date /\ w.rows[k].row["state"] = state
    THEN w.rows[CHOOSE k \in 1..Len(w.rows) :
                    w.rows[k].row["date"] = date /\ w.rows[k].row["state"] = state].row[c]
    ELSE NaN

\* The value of weather field c row i of the panel has from its own weather row.
OwnWeather(panel, w, i, c) ==
    WeatherOn(w, panel.rows[i].row["date"], panel.rows[i].row["state"], c)

\* The rows of the panel dated before (after) row i that have field c from
\* their own weather row.
EarlierWith(panel, w, i, c) ==
    {j \in 1..Len(panel.rows) :
        /\ panel.rows[j].row["date"] < panel.rows[i].row["date"]
        /\ OwnWeather(panel, w, j, c) # NaN}

LaterWith(panel, w, i, c) ==
    {j \in 1..Len(panel.rows) :
        /\ panel.rows[j].row["date"] > panel.rows[i].row["date"]
        /\ OwnWeather(panel, w, j, c) # NaN}

\* What the fill in date order gives row i for field c: its own weather, else
\* that of the nearest earlier row, else that of the nearest later row, else 0.
FilledInDateOrder(panel, w, i, c) ==
    IF OwnWeather(panel, w, i, c) # NaN THEN OwnWeather(panel, w, i, c)
    ELSE IF EarlierWith(panel, w, i, c) # {}
    THEN OwnWeather(panel, w,
            CHOOSE j \in EarlierWith(panel, w, i, c) :
                \A k \in EarlierWith(panel, w, i, c) :
                    panel.rows[k].row["date"] <= panel.rows[j].row["date"], c)
    ELSE IF LaterWith(panel, w, i, c) # {}
    THEN OwnWeather(panel, w,
            CHOOSE j \in LaterWith(panel, w, i, c) :
                \A k \in LaterWith(panel, w, i, c) :
                    panel.rows[j].row["date"] <= panel.rows[k].row["date"], c)
    ELSE 0

\* The rows of frame d are in the order of their dates.
InDateOrder(d) ==
    \A i, j \in 1..Len(d.rows) : i < j => d.rows[i].row["date"] <= d.rows[j].row["date"]

\* C13: after the weather stage no weather field of a row is missing, and a
\* row without a weather row of its (date, state) has each weather field from
\* the nearest earlier row in date order that has it, from the nearest later
\* one when there is none, 0 when no row has it, whatever the order in which
\* the observation rows arrive.
C13_FilledInDateOrder ==
    BuiltWithWeather =>
        \A i \in 1..Len(result.rows) : \A c \in weather_numeric_cols :
            /\ result.rows[i].row[c] # NaN
            /\ result.rows[i].row[c] =
                    FilledInDateOrder(result, weather_in_place(args.weather_df), i, c)

\* No weather field is missing after the weather stage.
C13_NoWeatherFieldMissing ==
    BuiltWithWeather =>
        \A i \in 1..Len(result.rows) : \A c \in weather_numeric_cols :
            result.rows[i].row[c] # NaN

\* For observation rows that arrive in date order the fill is the one in date
\* order.
C13_FilledWhenSorted ==
    (BuiltWithWeather /\ InDateOrder(args.sales_df)) =>
        \A i \in 1..Len(result.rows) : \A c \in weather_numeric_cols :
            result.rows[i].row[c] =
                FilledInDateOrder(result, weather_in_place(args.weather_df), i, c)

\* Tuesday, Saturday, Thursday: the Thursday row is below the Saturday row and
\* has the Saturday's weather, not the Tuesday's.
C13_FilledFromRowAbove ==
    /\ BuiltWithWeather
    /\ args.weather_df = PartialWeather
    /\ [i \in 1..3 |-> args.sales_df.rows[i].row["date"]] = <<20240702, 20240706, 20240704>>
    /\ result.rows[3].row["temperature_max"] = 20
    /\ FilledInDateOrder(result, PartialWeather, 3, "temperature_max") = 32

\* The call of create_all_features returned a panel.
Built == op = "create_all_features" /\ pc = "return"

\* C14: in every row of the engineered panel has_promotion is 1 if and only
\* if the total_discount of the row is greater than 0, also after the fills of
\* the weather and customer stages.
C14_PromotionIffDiscount ==
    Built =>
        \A i \in 1..Len(result.rows) :
            (result.rows[i].row["has_promotion"] = 1)
                <=> (result.rows[i].row["total_discount"] # NaN
                        /\ result.rows[i].row["total_discount"] > 0)

\* has_promotion is 1 if and only if the total_discount the row arrived with
\* is greater than 0: zero, negative and missing give 0.
C14_PromotionIffArrivedDiscount ==
    Built =>
        /\ Len(result.rows) = Len(args.sales_df.rows)
        /\ \A i \in 1..Len(result.rows) :
            result.rows[i].row["has_promotion"] = gt(args.sales_df.rows[i].row["total_discount"], 0)

\* Without weather the only fills are fills with zero, and the panel keeps
\* has_promotion = 1 exactly on the rows with a positive total_discount.
C14_HoldsWithoutWeather ==
    (Built /\ weather_absent(args.weather_df)) =>
        \A i \in 1..Len(result.rows) :
            (result.rows[i].row["has_promotion"] = 1)
                <=> (result.rows[i].row["total_discount"] > 0)

\* A row that arrived without a discount below a row with one: the weather
\* stage gave it the discount of the row above, and has_promotion stays 0.
C14_MissingDiscountFilled ==
    /\ Built
    /\ args.sales_df.rows[1].row["total_discount"] = 20
    /\ args.sales_df.rows[2].row["total_discount"] = NaN
    /\ result.rows[2].row["total_discount"] = 20
    /\ result.rows[2].row["has_promotion"] = 0

----------------------------------------------------------------------------
(* One call of create_all_features on rows of every day of a year *)

CalendarRows == 1

\* The number of days of each month of 2024.
DaysInMonth == <<31, 29, 31, 30, 31, 30, 31, 31, 30, 31, 30, 31>>

\* The days of 2024 as date texts, '2024-01-01' to '2024-12-31'.
CalendarDates ==
    UNION { {20240000 + 100 * mo + d : d \in 1..DaysInMonth[mo]} : mo \in 1..12 }

\* Observation frames of store 1 with CalendarRows rows, of any days of 2024.
CalendarFrames ==
    { [columns |-> DOMAIN SalesDtypes, dtypes |-> SalesDtypes,
       rows |-> [i \in 1..CalendarRows |-> SalesRow(dates[i], 1, "CA", 100, 20, 0)]] :
        dates \in [1..CalendarRows -> CalendarDates] }

InitCalendar ==
    /\ pc = "call"
    /\ op = "create_all_features"
    /\ \E s \in CalendarFrames :
          /\ df = s
          /\ args = [sales_df |-> s, weather_df |-> PartialWeather]
    /\ weather_df = PartialWeather
    /\ estimator = None
    /\ result = None
    /\ fit_calls = 0
    /\ calls = <<>>
    /\ customer_data = LoadedCustomers
    /\ enhanced_data = None
    /\ analysis_results = EmptyDict
    /\ ServiceInit

NextCalendar == CreateAllFeatures

SpecCalendar == InitCalendar /\ [][NextCalendar]_vars

\* The day of the week of the date year-month-day by Zeller's congruence:
\* 0 is Saturday, 1 Sunday, 2 Monday, ..., 6 Friday.
Zeller(year, month, day) ==
    LET mz == IF month <= 2 THEN month + 12 ELSE month
        yz == IF month <= 2 THEN year - 1 ELSE year
    IN  (day + ((13 * (mz + 1)) \div 5) + (yz % 100) + ((yz % 100) \div 4)
            + ((yz \div 100) \div 4) + (5 * (yz \div 100))) % 7

\* The date text t ('YYYY-MM-DD') is a Saturday or a Sunday.
SaturdayOrSunday(t) == Zeller(t \div 10000, (t \div 100) % 100, t % 100) \in {0, 1}

\* C15: in every row of the engineered panel is_weekend is 1 if and only if
\* the date of the row is a Saturday or a Sunday, and no row has is_weekend = 1
\* together with is_monday = 1 or is_friday = 1.
C15_WeekendIffSaturdayOrSunday ==
    Built =>
        /\ Len(result.rows) = Len(args.sales_df.rows)
        /\ \A i \in 1..Len(result.rows) :
            /\ result.rows[i].row["is_weekend"] \in {0, 1}
            /\ (result.rows[i].row["is_weekend"] = 1)
                    <=> SaturdayOrSunday(args.sales_df.rows[i].row["date"])
            /\ ~(result.rows[i].row["is_weekend"] = 1
                    /\ (result.rows[i].row["is_monday"] = 1
                            \/ result.rows[i].row["is_friday"] = 1))

\* The row of Saturday 2024-07-06 is a weekend row.
C15_Witness ==
    /\ Built
    /\ args.sales_df.rows[1].row["date"] = 20240706
    /\ result.rows[1].row["is_weekend"] = 1
    /\ result.rows[1].row["is_monday"] = 0
    /\ result.rows[1].row["is_friday"] = 0

\* The row of Friday 2024-03-01, the day after the leap day, is a Friday row
\* and no weekend row.
C15_FridayAfterLeapDay ==
    /\ Built
    /\ args.sales_df.rows[1].row["date"] = 20240301
    /\ result.rows[1].row["is_weekend"] = 0
    /\ result.rows[1].row["is_friday"] = 1

----------------------------------------------------------------------------
(* run_complete_analysis: the state column of the observation rows *)

LoadedRows == 2

\* A text cell of location_name, as the sequence of its characters, and a
\* number cell (load_integrated_data returns fillna(0): a store without a
\* name has the number 0).
Str(chars) == [str |-> chars]

Num(k) == [num |-> k]

Digits == <<"0", "1", "2", "3", "4", "5", "6", "7", "8", "9">>

\* Series.astype(str) of one cell: a text stays, a number becomes its digits.
astype_str(v) ==
    IF "str" \in DOMAIN v THEN v.str
    ELSE IF v.num < 10 THEN <<Digits[v.num + 1]>>
    ELSE <<Digits[(v.num \div 10) + 1], Digits[(v.num % 10) + 1]>>

\* [A-Z]
Capitals ==
    {"A", "B", "C", "D", "E", "F", "G", "H", "I", "J", "K", "L", "M",
     "N", "O", "P", "Q", "R", "S", "T", "U", "V", "W", "X", "Y", "Z"}

\* The text s has a match of -([A-Z]{2}) that ends at position e.
code_ends_at(s, e) ==
    e >= 3 /\ e <= Len(s) /\ s[e - 2] = "-" /\ s[e - 1] \in Capitals /\ s[e] \in Capitals

\* The position '$' is tried at: the end of the text, or just before a line
\* break that ends the text.
dollar_positions(s) ==
    {Len(s)} \cup (IF Len(s) >= 1 /\ s[Len(s)] = "\n" THEN {Len(s) - 1} ELSE {})

\* The extraction by the pattern without its '$': a match anywhere in the text.
str_extract_state_anywhere(s) ==
    IF \E e \in 3..Len(s) : code_ends_at(s, e)
    THEN LET e == CHOOSE k \in 3..Len(s) : code_ends_at(s, k)
         IN  <<s[e - 1] \o s[e]>>
    ELSE <<>>

\* Series.str.extract(r'-([A-Z]{2})$')[0] of one text: the cell extracted, as
\* the sequence of the group of the match, empty (NaN) without a match.
str_extract_state(s) ==
    IF \E e \in dollar_positions(s) : code_ends_at(s, e)
    THEN LET e == CHOOSE k \in dollar_positions(s) : code_ends_at(s, k)
         IN  <<s[e - 1] \o s[e]>>
    ELSE <<>>

\* .fillna('CA') of one extracted cell
fillna_CA(v) == IF v = <<>> THEN "CA" ELSE v[1]

\* Lines 1055-1064: sales_df with a state column.
derive_state(sales_df) ==
    IF "state" \in sales_df.columns THEN sales_df
    ELSE [columns |-> sales_df.columns \cup {"state"},
          dtypes  |-> [c \in {"state"} |-> "object"] @@ sales_df.dtypes,
          rows    |-> [i \in 1..Len(sales_df.rows) |->
                        [n |-> sales_df.rows[i].n,
                         row |-> [c \in {"state"} |->
                                    IF "location_name" \in sales_df.columns
                                    THEN fillna_CA(str_extract_state(
                                            astype_str(sales_df.rows[i].row["location_name"])))
                                    ELSE "CA"]
                                 @@ sales_df.rows[i].row]]]

\* state_coords: the states get_weather_data has coordinates for.
state_coords == {"CA", "IL", "AZ", "TX"}

\* locations_df['state'].unique(): the states in the order they first appear.
unique_states(d) ==
    [k \in 1..Len(SelectSeq([i \in 1..Len(d.rows) |-> i],
                    LAMBDA i : \A j \in 1..(i - 1) :
                        d.rows[j].row["state"] # d.rows[i].row["state"])) |->
        d.rows[SelectSeq([i \in 1..Len(d.rows) |-> i],
                    LAMBDA i : \A j \in 1..(i - 1) :
                        d.rows[j].row["state"] # d.rows[i].row["state"])[k]].row["state"]]

\* The weather of the states of the sequence states on the days of the rows
\* of d, one row per state and day, as _fetch_weather_api and
\* _generate_mock_weather_data build it.
weather_of(d, states) ==
    [columns |-> DOMAIN WeatherDtypes, dtypes |-> WeatherDtypes,
     rows |-> Flatten([k \in 1..Len(states) |->
                [i \in 1..Len(d.rows) |->
                    WeatherRow(to_datetime_cell(d.rows[i].row["date"], d.dtypes["date"]),
                               states[k], 22, 0)]])]

\* get_weather_data(start_date, end_date, locations_df), the archive
\* answering for the states of fetched: the weather of the states it has
\* coordinates and an answer for, mock weather of every state when there is
\* none.  Returns [raised, value]; locations_df['state'] raises KeyError
\* without the column.
get_weather_data(locations_df, fetched) ==
    IF "state" \notin locations_df.columns THEN [raised |-> TRUE, value |-> None]
    ELSE IF SelectSeq(unique_states(locations_df),
                      LAMBDA st : st \in state_coords /\ st \in fetched) # <<>>
    THEN [raised |-> FALSE,
          value |-> weather_of(locations_df,
                        SelectSeq(unique_states(locations_df),
                                  LAMBDA st : st \in state_coords /\ st \in fetched))]
    ELSE [raised |-> FALSE,
          value |-> weather_of(locations_df, unique_states(locations_df))]

\* The columns of the query of load_integrated_data the model has.
LoadedDtypes ==
    [c \in {"location_name"} |-> "object"]
        @@ [c \in {"day_of_week", "unique_customers", "category_diversity",
                   "tea_drinks_orders"} |-> "int64"]
        @@ SalesDtypes

\* Row i of the period: its day is the i-th of July 2024 after the 3rd.
LoadedRow(i, name, state) ==
    [n |-> 1,
     row |-> [date |-> 20240703 + i, location_id |-> 1, location_name |-> name,
              state |-> state, day_of_week |-> 3 + i, total_revenue |-> 100,
              total_discount |-> 20, bogo_orders |-> 0, unique_customers |-> 40,
              category_diversity |-> 5, tea_drinks_orders |-> 30]]

\* The location names of the source: with a state code at the end, without
\* one, with a code in small letters, with three capitals, without the hyphen,
\* with a line break or a blank after the code, a bare code, and no name.
LocationNames ==
    { Str(<<"U", "M", "e", "-", "C", "A">>), Str(<<"U", "-", "T", "X">>),
      Str(<<"U", "M", "e">>), Str(<<"U", "-", "t", "x">>),
      Str(<<"U", "-", "T", "X", "A">>), Str(<<"U", " ", "T", "X">>),
      Str(<<"U", "-", "T", "X", "\n">>), Str(<<"U", "-", "T", "X", " ">>),
      Str(<<"-", "I", "L">>), Num(0) }

\* What load_integrated_data returns: rows with all columns, rows without
\* the state column, rows without state and location_name.
LoadedFrames ==
    { drop([columns |-> DOMAIN LoadedDtypes, dtypes |-> LoadedDtypes,
            rows |-> [i \in 1..LoadedRows |-> LoadedRow(i, names[i], "TX")]], "state") :
        names \in [1..LoadedRows -> LocationNames] }
    \cup
    { [columns |-> DOMAIN LoadedDtypes, dtypes |-> LoadedDtypes,
       rows |-> [i \in 1..LoadedRows |-> LoadedRow(i, Str(<<"U", "M", "e", "-", "C", "A">>), "TX")]],
      drop(drop([columns |-> DOMAIN LoadedDtypes, dtypes |-> LoadedDtypes,
                 rows |-> [i \in 1..LoadedRows |-> LoadedRow(i, Num(0), "TX")]], "state"),
           "location_name") }

\* run_complete_analysis is called on a new engine; df is what
\* load_integrated_data returns for the period.
InitRun ==
    /\ pc = "call"
    /\ op = "run_complete_analysis"
    /\ \E s \in LoadedFrames :
          /\ df = s
          /\ args = [sales_df |-> s]
    /\ weather_df = None
    /\ estimator = None
    /\ result = None
    /\ fit_calls = 0
    /\ calls = <<>>
    /\ EngineInit
    /\ ServiceInit

\* Step 5 (line 1077) on the panel enhanced, the estimation library
\* succeeding for every factor.
run_analysis(enhanced) ==
    LET a == analyze_all_factors(enhanced, [f \in FactorsIn(enhanced) |-> FitSucceeds])
    IN  [raised |-> a.raised, enhanced |-> enhanced, analysis |-> a.value, fits |-> a.fits]

\* Steps 4 and 5 of run_complete_analysis on the frame sales and the weather w
\* (lines 1074-1077): [raised, enhanced, analysis, fits].
run_features_and_analysis(engine, sales, w) ==
    IF w.raised THEN [raised |-> TRUE, enhanced |-> None, analysis |-> None, fits |-> 0]
    ELSE IF create_all_features(engine, sales, w.value).raised
    THEN [raised |-> TRUE, enhanced |-> None, analysis |-> None, fits |-> 0]
    ELSE run_analysis(create_all_features(engine, sales, w.value).value)

\* run_complete_analysis(start_date, end_date), lines 1049-1077: the state
\* column is derived, the customer profiles are loaded (or the query fails),
\* the weather is fetched, the panel is built and analyzed.  df is the local
\* sales_df after the derivation.
RunCompleteAnalysis ==
    /\ pc = "call"
    /\ op = "run_complete_analysis"
    /\ \E customers_ok \in BOOLEAN, fetched \in SUBSET {"CA", "TX"} :
        \E sales \in {derive_state(df)} :
        \E customers \in {IF customers_ok THEN LoadedCustomers ELSE customer_data} :
        \E r \in {run_features_and_analysis(
                    [self EXCEPT !.customer_data = customers], sales,
                    get_weather_data(sales, fetched))} :
            /\ df' = sales
            /\ customer_data' = customers
            /\ weather_df' = IF get_weather_data(sales, fetched).raised THEN None
                             ELSE get_weather_data(sales, fetched).value
            /\ enhanced_data' = r.enhanced
            /\ analysis_results' = IF r.raised THEN analysis_results ELSE r.analysis
            /\ fit_calls' = r.fits
            /\ result' = IF r.raised THEN None
                         ELSE [enhanced_data |-> r.enhanced, analysis_results |-> r.analysis]
            /\ pc' = IF r.raised THEN "raise" ELSE "return"
    /\ UNCHANGED serviceVars
    /\ UNCHANGED <<op, args, estimator, calls>>

NextRun == RunCompleteAnalysis

SpecRun == InitRun /\ [][NextRun]_vars

\* run_complete_analysis is over, on rows that arrived without a state column.
RanWithoutState ==
    op = "run_complete_analysis" /\ pc # "call" /\ "state" \notin args.sales_df.columns

\* The text s ends in a hyphen and the two capital letters a and b.
EndsInCode(s, a, b) ==
    Len(s) >= 3 /\ SubSeq(s, Len(s) - 2, Len(s)) = <<"-", a, b>>

\* The text s ends in a hyphen, the capital letters a and b and a line break.
EndsInCodeAndLineBreak(s, a, b) ==
    Len(s) >= 4 /\ SubSeq(s, Len(s) - 3, Len(s)) = <<"-", a, b, "\n">>

\* C16 (as stated): rows without a state column get one and the run does not
\* fail for it: a location_name ending in a hyphen and two capital letters
\* gives that code, any other location_name gives "CA", and without a
\* location_name column every row gets "CA".
C16_StateDerived ==
    RanWithoutState =>
        /\ pc = "return"
        /\ enhanced_data # None
        /\ "state" \in df.columns
        /\ Len(df.rows) = Len(args.sales_df.rows)
        /\ \A i \in 1..Len(df.rows) :
            /\ enhanced_data.rows[i].row["state"] = df.rows[i].row["state"]
            /\ IF "location_name" \notin args.sales_df.columns
               THEN df.rows[i].row["state"] = "CA"
               ELSE \E name \in {astype_str(args.sales_df.rows[i].row["location_name"])} :
                      /\ \A a, b \in Capitals :
                            EndsInCode(name, a, b) => df.rows[i].row["state"] = a \o b
                      /\ (~ \E a, b \in Capitals : EndsInCode(name, a, b))
                            => df.rows[i].row["state"] = "CA"

\* C16 (amended): as above, a name that ends in a hyphen, two capital letters
\* and one line break giving the two letters too.
C16_StateDerivedUpToLineBreak ==
    RanWithoutState =>
        /\ pc = "return"
        /\ enhanced_data # None
        /\ "state" \in df.columns
        /\ Len(df.rows) = Len(args.sales_df.rows)
        /\ \A i \in 1..Len(df.rows) :
            /\ enhanced_data.rows[i].row["state"] = df.rows[i].row["state"]
            /\ IF "location_name" \notin args.sales_df.columns
               THEN df.rows[i].row["state"] = "CA"
               ELSE \E name \in {astype_str(args.sales_df.rows[i].row["location_name"])} :
                      /\ \A a, b \in Capitals :
                            (EndsInCode(name, a, b) \/ EndsInCodeAndLineBreak(name, a, b))
                                => df.rows[i].row["state"] = a \o b
                      /\ (~ \E a, b \in Capitals :
                                EndsInCode(name, a, b) \/ EndsInCodeAndLineBreak(name, a, b))
                            => df.rows[i].row["state"] = "CA"

\* A run on a store named "U-TX" and a store named "U-TXA": the states are
\* "TX" and "CA", and the panel is built.
C16_Witness ==
    /\ RanWithoutState
    /\ "location_name" \in args.sales_df.columns
    /\ astype_str(args.sales_df.rows[1].row["location_name"]) = <<"U", "-", "T", "X">>
    /\ astype_str(args.sales_df.rows[2].row["location_name"]) = <<"U", "-", "T", "X", "A">>
    /\ df.rows[1].row["state"] = "TX"
    /\ df.rows[2].row["state"] = "CA"
    /\ pc = "return"
    /\ enhanced_data # None

\* A store whose name ends in a line break after the code has the code.
C16_LineBreakAfterCode ==
    /\ RanWithoutState
    /\ "location_name" \in args.sales_df.columns
    /\ astype_str(args.sales_df.rows[1].row["location_name"]) = <<"U", "-", "T", "X", "\n">>
    /\ df.rows[1].row["state"] = "TX"

\* Rows without state and without location_name: every row gets "CA".
C16_NoLocationName ==
    /\ RanWithoutState
    /\ "location_name" \notin args.sales_df.columns
    /\ \A i \in 1..Len(df.rows) : df.rows[i].row["state"] = "CA"

\* Rows that arrive with a state column keep it.
C16_StateKept ==
    (op = "run_complete_analysis" /\ pc # "call" /\ "state" \in args.sales_df.columns)
        => df = args.sales_df

----------------------------------------------------------------------------
(* The LLM service: parse_query_intent and generate_response *)

\* "confidence >= 0.7", in hundredths.
ConfidenceThreshold == 70

\* The message "yu ce ming tian de xiao liang" (forecast tomorrow's sales) of
\* the tests, a data question and a greeting.
ForecastQuery == "yu ce ming tian de xiao liang"

Queries == {ForecastQuery, "cha xun ding dan shu liang", "hello"}

\* The intent types of the system prompt, "analysis", and one the prompt does
\* not name.
IntentTypes == {"forecast", "data_query", "analysis", "daily_report", "general", "chitchat"}

\* dict.get(key, default)
get(d, key, default) == IF key \in DOMAIN d THEN d[key] ELSE default

\* dict.update(other)
update(d, other) ==
    [k \in DOMAIN d \cup DOMAIN other |-> IF k \in DOMAIN other THEN other[k] ELSE d[k]]

\* The truth value of llm_intent: None and {} are false.
truthy_dict(d) == d # None /\ DOMAIN d # {}

\* needs_data of a mutated rule: everything but "general" needs data.
needs_data_unless_general(intent_type) == intent_type # "general"

\* "intent_type in {'forecast', 'data_query', 'analysis', 'daily_report'}"
needs_data(intent_type) ==
    intent_type \in {"forecast", "data_query", "analysis", "daily_report"}

\* The intent parse_query_intent starts from (lines 144-151); confidences are
\* in hundredths.
default_intent(query) ==
    [query |-> query, intent_type |-> "general", needs_data |-> FALSE,
     entities |-> EmptyDict, time_range |-> None, confidence |-> 0]

\* Lines 157-164 for an llm_intent with a true intent_type and a confidence
\* of at least 0.7: the keys of llm_intent replace those of intent, then
\* needs_data is set.
accept_llm_intent(intent, llm_intent) ==
    [update(intent, llm_intent) EXCEPT !["needs_data"] = needs_data(llm_intent["intent_type"])]

\* parse_query_intent(query), llm_intent being what _parse_intent_with_llm
\* returned: None after a failure, else the JSON object of the reply (a text
\* intent_type, "" standing for a false one; a confidence in hundredths,
\* NonNumeric for one that is no number).  Returns [raised, value]: comparing
\* a confidence that is no number with 0.7 raises TypeError.
parse_query_intent(query, llm_intent) ==
    IF ~truthy_dict(llm_intent)
    THEN [raised |-> FALSE, value |-> default_intent(query)]
    ELSE IF get(llm_intent, "intent_type", "") = ""
    THEN [raised |-> FALSE,
          value |-> [default_intent(query) EXCEPT
                        !.confidence = get(llm_intent, "confidence", 0)]]
    ELSE IF get(llm_intent, "confidence", 0) = NonNumeric
    THEN [raised |-> TRUE, value |-> None]
    ELSE IF get(llm_intent, "confidence", 0) >= ConfidenceThreshold
    THEN [raised |-> FALSE,
          value |-> accept_llm_intent(
                        [default_intent(query) EXCEPT
                            !.confidence = get(llm_intent, "confidence", 0)],
                        llm_intent)]
    ELSE [raised |-> FALSE,
          value |-> [default_intent(query) EXCEPT
                        !.confidence = get(llm_intent, "confidence", 0)]]

\* The JSON objects the LLM replies with: an intent type or none, entities or
\* none, a confidence or none, and possibly a needs_data key of its own.
LLMReplies ==
    { update(update(update(t, e), c), x) :
        t \in {EmptyDict} \cup {[intent_type |-> v] : v \in IntentTypes \cup {""}},
        e \in {EmptyDict, [entities |-> EmptyDict],
               [entities |-> [query_target |-> "orders"]]},
        c \in {EmptyDict} \cup {[confidence |-> v] : v \in {0, 20, 69, 70, 90, NonNumeric}},
        x \in {EmptyDict, [needs_data |-> TRUE]} }

\* What _parse_intent_with_llm returns: a reply, or None after an exception.
LLMIntents == LLMReplies \cup {None}

\* A Decimal of the data, and its str().
Decimal(k) == [decimal |-> k]

\* convert_decimal_to_str(data) for a dict of numbers, texts and Decimals: a
\* Decimal becomes its text, anything else stays.
convert_decimal_to_str(data) ==
    IF data = None THEN None
    ELSE [k \in DOMAIN data |->
            IF "decimal" \in DOMAIN data[k] THEN Str(astype_str(Num(data[k].decimal)))
            ELSE data[k]]

\* "not data": None and {} are false.
truthy_data(data) == data # None /\ DOMAIN data # {}

\* _generate_forecast_response(data)
_generate_forecast_response(data) ==
    IF ~truthy_data(data) \/ "error" \in DOMAIN data
    THEN [message |-> "generating forecast", data |-> None]
    ELSE [message |-> IF "forecast" \in DOMAIN data THEN "forecast summary"
                      ELSE "forecast generated",
          data |-> [type |-> "forecast", content |-> data, display_type |-> "forecast"]]

\* _generate_analysis_response(data)
_generate_analysis_response(data) ==
    IF ~truthy_data(data) THEN [message |-> "analyzing", data |-> None]
    ELSE [message |-> "analysis done",
          data |-> [type |-> "analysis", content |-> data,
                    display_type |-> "causal_analysis"]]

\* _generate_report_response(data)
_generate_report_response(data) ==
    IF ~truthy_data(data) THEN [message |-> "generating report", data |-> None]
    ELSE [message |-> "overview of today",
          data |-> [type |-> "daily_report", content |-> data,
                    display_type |-> "daily_report"]]

\* _generate_general_response(user_message, data, history), gpt being the
\* outcome of the weather request and of the chat completion: the reply of
\* the model, or the degraded reply when either raised.
_generate_general_response(user_message, data, history, gpt) ==
    IF gpt = "ok"
    THEN [message |-> "gpt reply",
          data |-> IF truthy_data(convert_decimal_to_str(data))
                   THEN [type |-> "general", content |-> convert_decimal_to_str(data)]
                   ELSE None]
    ELSE [message |-> "degraded reply", data |-> None]

\* The generator generate_response selects for an intent (lines 179-188).
selected_generator(intent) ==
    IF intent["intent_type"] \in {"forecast", "data_query", "analysis", "daily_report"}
    THEN intent["intent_type"]
    ELSE "general"

\* The response of the generator selected for the intent.
generated_response(intent, user_message, data, history, gpt) ==
    IF intent["intent_type"] = "forecast" THEN _generate_forecast_response(data)
    ELSE IF intent["intent_type"] = "data_query"
    THEN _generate_general_response(user_message, data, None, gpt)
    ELSE IF intent["intent_type"] = "analysis" THEN _generate_analysis_response(data)
    ELSE IF intent["intent_type"] = "daily_report" THEN _generate_report_response(data)
    ELSE _generate_general_response(user_message, data, history, gpt)

\* A response that gets its intent only when it carries data.
with_intent_if_data(response, intent) ==
    IF response.data = None THEN response ELSE SetItem(response, "intent", intent)

\* response["intent"] = intent
with_intent(response, intent) == SetItem(response, "intent", intent)

\* generate_response(user_message, data, history): [raised, value].
generate_response(user_message, llm_intent, data, history, gpt) ==
    IF parse_query_intent(user_message, llm_intent).raised
    THEN [raised |-> TRUE, value |-> None]
    ELSE [raised |-> FALSE,
          value |-> with_intent(
                        generated_response(parse_query_intent(user_message, llm_intent).value,
                                           user_message, data, history, gpt),
                        parse_query_intent(user_message, llm_intent).value)]

\* The data a caller passes: none, an empty dict, an error, a forecast, metrics
\* with a Decimal.
ResponseData ==
    { None, EmptyDict, [error |-> Str(<<"n", "o">>)],
      [forecast |-> Num(7), method |-> Str(<<"p">>)],
      [total_revenue |-> Decimal(12), total_orders |-> Num(3)] }

\* The replies the LLM gives while a response is generated.
ResponseIntents ==
    { r \in LLMIntents :
        r # None => (DOMAIN r = {"intent_type", "entities", "confidence"}
                        /\ r["confidence"] \in {20, 90, NonNumeric}
                        /\ r["entities"] = EmptyDict) }

\* A caller calls parse_query_intent(query) or generate_response(user_message,
\* data); llm_intent and gpt are what the LLM does during the call.
InitIntent ==
    /\ pc = "call"
    /\ \/ /\ op = "parse_query_intent"
          /\ \E q \in Queries, l \in LLMIntents :
                args = [query |-> q, llm_intent |-> l]
       \/ /\ op = "generate_response"
          /\ \E q \in Queries, l \in ResponseIntents, d \in ResponseData,
                g \in {"ok", "raise"} :
                args = [user_message |-> q, llm_intent |-> l, data |-> d,
                        history |-> None, gpt |-> g]
    /\ df = None
    /\ weather_df = None
    /\ estimator = None
    /\ result = None
    /\ fit_calls = 0
    /\ calls = <<>>
    /\ EngineInit
    /\ ServiceInit

\* parse_query_intent runs.
ParseQueryIntent ==
    /\ pc = "call"
    /\ op = "parse_query_intent"
    /\ \E r \in {parse_query_intent(args.query, args.llm_intent)} :
          /\ pc' = IF r.raised THEN "raise" ELSE "return"
          /\ result' = r.value
    /\ UNCHANGED serviceVars
    /\ UNCHANGED <<op, args, df, weather_df, estimator, fit_calls, calls,
                   customer_data, enhanced_data, analysis_results>>

\* generate_response runs.
GenerateResponse ==
    /\ pc = "call"
    /\ op = "generate_response"
    /\ \E r \in {generate_response(args.user_message, args.llm_intent, args.data,
                                   args.history, args.gpt)} :
          /\ pc' = IF r.raised THEN "raise" ELSE "return"
          /\ result' = r.value
    /\ UNCHANGED serviceVars
    /\ UNCHANGED <<op, args, df, weather_df, estimator, fit_calls, calls,
                   customer_data, enhanced_data, analysis_results>>

NextIntent == ParseQueryIntent \/ GenerateResponse

SpecIntent == InitIntent /\ [][NextIntent]_vars

\* parse_query_intent returned, the LLM having replied with a true intent
\* type and a confidence that is a number.
ParsedReply ==
    /\ op = "parse_query_intent"
    /\ pc = "return"
    /\ truthy_dict(args.llm_intent)
    /\ get(args.llm_intent, "intent_type", "") # ""
    /\ get(args.llm_intent, "confidence", 0) # NonNumeric

\* C17: when the LLM returns an intent with a confidence below 0.7,
\* parse_query_intent answers the forecast question by keyword rules:
\* intent_type "forecast", entities.forecast_type "sales", and the confidence
\* of the LLM.
C17_KeywordFallback ==
    (ParsedReply /\ args.query = ForecastQuery
        /\ get(args.llm_intent, "confidence", 0) < ConfidenceThreshold) =>
        /\ result["intent_type"] = "forecast"
        /\ "forecast_type" \in DOMAIN result["entities"]
        /\ result["entities"]["forecast_type"] = "sales"
        /\ result["confidence"] = get(args.llm_intent, "confidence", 0)

\* Below 0.7 the intent stays the default one, with the confidence of the LLM.
C17_LowConfidenceIsGeneral ==
    (ParsedReply /\ get(args.llm_intent, "confidence", 0) < ConfidenceThreshold) =>
        result = [default_intent(args.query) EXCEPT
                    !.confidence = get(args.llm_intent, "confidence", 0)]

\* The case of the test: "data_query" with confidence 0.2 on the forecast
\* question is returned as "general" without entities.
C17_TestCaseIsGeneral ==
    /\ ParsedReply
    /\ args.query = ForecastQuery
    /\ args.llm_intent = [intent_type |-> "data_query", entities |-> EmptyDict,
                          confidence |-> 20]
    /\ result["intent_type"] = "general"
    /\ result["entities"] = EmptyDict
    /\ result["confidence"] = 20

\* C18: when the LLM returns an intent_type with a confidence of at least
\* 0.7, parse_query_intent returns that intent_type, the entities and the
\* confidence of the LLM, and needs_data is true if and only if the intent
\* type is forecast, data_query, analysis or daily_report.
C18_LLMIntentAccepted ==
    (ParsedReply /\ get(args.llm_intent, "confidence", 0) >= ConfidenceThreshold) =>
        /\ result["intent_type"] = args.llm_intent["intent_type"]
        /\ result["entities"] = get(args.llm_intent, "entities", EmptyDict)
        /\ result["confidence"] = args.llm_intent["confidence"]
        /\ result["needs_data"] \in BOOLEAN
        /\ result["needs_data"] <=>
                args.llm_intent["intent_type"]
                    \in {"forecast", "data_query", "analysis", "daily_report"}
        /\ result["query"] = args.query

\* The case of the test: "data_query" about orders with confidence 0.9.
C18_Witness ==
    /\ ParsedReply
    /\ args.llm_intent = [intent_type |-> "data_query",
                          entities |-> [query_target |-> "orders"], confidence |-> 90]
    /\ result["intent_type"] = "data_query"
    /\ result["entities"] = [query_target |-> "orders"]
    /\ result["confidence"] = 90
    /\ result["needs_data"] = TRUE

\* An intent type outside the four, at confidence 0.7 exactly, with a
\* needs_data key of the LLM's own: needs_data is false.
C18_OtherTypeNeedsNoData ==
    /\ ParsedReply
    /\ args.llm_intent = [intent_type |-> "chitchat", confidence |-> 70, needs_data |-> TRUE]
    /\ result["intent_type"] = "chitchat"
    /\ result["needs_data"] = FALSE

\* C20: whichever generator is selected, the dictionary generate_response
\* returns has an "intent" entry equal to the intent parse_query_intent
\* returns for the message.
C20_ResponseCarriesIntent ==
    (op = "generate_response" /\ pc = "return") =>
        /\ "intent" \in DOMAIN result
        /\ result["intent"] = parse_query_intent(args.user_message, args.llm_intent).value
        /\ {"message", "data"} \subseteq DOMAIN result

\* The degraded reply of the general generator carries the intent.
C20_Witness ==
    /\ op = "generate_response"
    /\ pc = "return"
    /\ args.gpt = "raise"
    /\ result["message"] = "degraded reply"
    /\ result["intent"]["intent_type"] = "general"
    /\ result["intent"]["confidence"] = 20

\* The forecast generator, with a forecast to show, carries the intent.
C20_ForecastGenerator ==
    /\ op = "generate_response"
    /\ pc = "return"
    /\ selected_generator(result["intent"]) = "forecast"
    /\ result["data"] # None
    /\ result["intent"]["needs_data"] = TRUE

\* generate_response does not return when parse_query_intent raises.
C20_ParseRaises ==
    /\ op = "generate_response"
    /\ pc = "raise"
    /\ args.llm_intent["confidence"] = NonNumeric

----------------------------------------------------------------------------
(* The analysis service: _calculate_trends *)

TrendRows == 3

\* A frame of the analysis service: an index [dtype, name, values] and the
\* columns, each the sequence of its cells.  A date text 'YYYY-MM-DD' is the
\* number YYYYMMDD, a Timestamp its day number, an index without a name has
\* the name "".
RangeIndex(n) == [dtype |-> "int64", name |-> "", values |-> [i \in 1..n |-> i - 1]]

frame_len(data) == Len(data.index.values)

\* DataFrame.rename(columns={old: new})
rename(data, old, new) ==
    [data EXCEPT !.columns =
        [c \in (DOMAIN data.columns \ {old}) \cup {new} |->
            IF c = new THEN data.columns[old] ELSE data.columns[c]]]

\* DataFrame.reset_index(): the index becomes a column named after it,
\* "index" when it has no name.
reset_index(data) ==
    [index |-> RangeIndex(frame_len(data)),
     columns |-> [c \in DOMAIN data.columns
                        \cup {IF data.index.name = "" THEN "index" ELSE data.index.name} |->
                    IF c \in DOMAIN data.columns THEN data.columns[c]
                    ELSE data.index.values]]

\* The frame with its dates in the column "date", not yet converted (lines
\* 375-395): [ok, data, dtype], ok false where the method returns {}.
with_date_column(data) ==
    IF "date" \in DOMAIN data.columns THEN [ok |-> TRUE, data |-> data, dtype |-> "object"]
    ELSE IF "order_date" \in DOMAIN data.columns
    THEN [ok |-> TRUE, data |-> rename(data, "order_date", "date"), dtype |-> "object"]
    ELSE IF "ds" \in DOMAIN data.columns
    THEN [ok |-> TRUE, data |-> rename(data, "ds", "date"), dtype |-> "object"]
    ELSE IF data.index.dtype = "datetime64"
    THEN [ok |-> TRUE,
          data |-> rename(reset_index(data),
                          IF data.index.name = "" THEN "index" ELSE data.index.name, "date"),
          dtype |-> "datetime64"]
    ELSE IF data.index.dtype # "int64"
    THEN [ok |-> NonNumeric \notin {data.index.values[i] : i \in 1..frame_len(data)},
          data |-> [data EXCEPT !.columns =
                        [c \in DOMAIN data.columns \cup {"date"} |->
                            IF c = "date"
                            THEN [i \in 1..frame_len(data) |->
                                    to_datetime_cell(data.index.values[i], "object")]
                            ELSE data.columns[c]]],
          dtype |-> "datetime64"]
    ELSE [ok |-> FALSE, data |-> data, dtype |-> "object"]

\* The positions of the rows in the order of sort_values("date"): by date,
\* rows of the same date in the order the sort of the build leaves them in,
\* which is the order of their ranks in tie_break.
sort_order(dates, tie_break) ==
    [k \in 1..Len(dates) |->
        CHOOSE i \in 1..Len(dates) :
            Cardinality({j \in 1..Len(dates) :
                            \/ dates[j] < dates[i]
                            \/ dates[j] = dates[i] /\ tie_break[j] < tie_break[i]}) = k - 1]

\* Series.mean() of the cells of positions, missing cells skipped, as
\* <<sum, count>>.
half_mean(cells, positions) ==
    << SumSeq(SelectSeq([k \in 1..Len(positions) |-> cells[positions[k]]],
                        LAMBDA v : v # NaN)),
       Len(SelectSeq([k \in 1..Len(positions) |-> cells[positions[k]]],
                     LAMBDA v : v # NaN)) >>

\* The quotient num / den (den > 0) rounded to a whole number, a half to the
\* even neighbour.
round_half_even(num, den) ==
    LET q == num \div den
        r == num - q * den
    IN  IF 2 * r < den THEN q
        ELSE IF 2 * r > den THEN q + 1
        ELSE IF q % 2 = 0 THEN q ELSE q + 1

\* A rounding that cuts the digits off.
round_down(num, den) == num \div den

\* round(x, 2) of the quotient num / den, in hundredths.
round2(num, den) == round_half_even(num, den)

\* "first_avg > 0" for the mean <<sum, count>>: false for the mean of nothing.
positive_mean(mean) == mean[2] > 0 /\ mean[1] > 0

\* round(((second_avg - first_avg) / first_avg) * 100, 2) in hundredths, NaN
\* when the second half has no value.
change(first, second) ==
    IF second[2] = 0 THEN NaN
    ELSE round2(10000 * (second[1] * first[2] - first[1] * second[2]),
                first[1] * second[2])

TrendMetrics == {"total_revenue", "order_count", "unique_customers"}

\* Lines 402-419 on the frame whose "date" column holds the Timestamps dates.
trends_of(data, dates, tie_break) ==
    LET order       == sort_order(dates, tie_break)
        mid_point   == Len(dates) \div 2
        first_half  == SubSeq(order, 1, mid_point)
        second_half == SubSeq(order, mid_point + 1, Len(dates))
    IN  [metric \in {c \in TrendMetrics \cap DOMAIN data.columns :
                        positive_mean(half_mean(data.columns[c], first_half))} |->
            change(half_mean(data.columns[metric], first_half),
                   half_mean(data.columns[metric], second_half))]

\* Lines 397-419 on dated, the outcome of with_date_column: {} when there is
\* no date column or pd.to_datetime raises on it.
trends_with_dates(dated, tie_break) ==
    IF ~dated.ok THEN EmptyDict
    ELSE IF dated.dtype = "object"
            /\ NonNumeric \in {dated.data.columns["date"][i] : i \in 1..frame_len(dated.data)}
    THEN EmptyDict
    ELSE trends_of(dated.data,
                   [i \in 1..frame_len(dated.data) |->
                        to_datetime_cell(dated.data.columns["date"][i], dated.dtype)],
                   tie_break)

\* _calculate_trends(data): the dict of the trends, {} for fewer than two
\* rows, for a frame without dates, and for dates that do not parse.
_calculate_trends(data, tie_break) ==
    IF frame_len(data) < 2 THEN EmptyDict
    ELSE trends_with_dates(with_date_column(data), tie_break)

\* The days of n rows, as date texts: the first n days of 2023.
TrendDays(n) == {20230100 + i : i \in 1..n}

\* The dates of n rows: every order of n different days, the same day n times,
\* and the second day followed by the first day n - 1 times.
TrendDates(n) ==
    { dates \in [1..n -> TrendDays(n)] :
        \/ Cardinality({dates[i] : i \in 1..n}) \in {1, n}
        \/ dates = [i \in 1..n |-> IF i = 1 THEN 20230102 ELSE 20230101] }

\* The revenues of the rows.
TrendValues == {0, 100, 300}

\* Where the frame keeps its dates: a column, the index (a DatetimeIndex
\* without a name or named "day", an index of date texts), or nowhere.
DatePlaces == {"date", "order_date", "ds", "DatetimeIndex"}

OtherPlaces == {"DatetimeIndex named day", "text index", "nowhere"}

\* The metric columns of the rows: total_revenue as given, order_count
\* growing with the position of the row, unique_customers missing in the
\* first row.
metric_columns(revenues) ==
    [total_revenue |-> revenues,
     order_count |-> [i \in 1..Len(revenues) |-> 10 * i],
     unique_customers |-> [i \in 1..Len(revenues) |-> IF i = 1 THEN NaN ELSE 4 * i]]

\* The frame of the metric columns with the dates kept at place.
placed(metrics, dates, place) ==
    IF place \in {"date", "order_date", "ds"}
    THEN [index |-> RangeIndex(Len(dates)),
          columns |-> [c \in DOMAIN metrics \cup {place} |->
                          IF c = place THEN dates ELSE metrics[c]]]
    ELSE IF place = "DatetimeIndex" \/ place = "DatetimeIndex named day"
    THEN [index |-> [dtype |-> "datetime64",
                     name |-> IF place = "DatetimeIndex" THEN "" ELSE "day",
                     values |-> [i \in 1..Len(dates) |-> to_datetime_cell(dates[i], "object")]],
          columns |-> metrics]
    ELSE IF place = "text index"
    THEN [index |-> [dtype |-> "object", name |-> "", values |-> dates],
          columns |-> metrics]
    ELSE [index |-> RangeIndex(Len(dates)), columns |-> metrics]

\* The two ways the sort of the build leaves rows of the same date: as they
\* were, or reversed.
TieBreaks(n) == {[i \in 1..n |-> i], [i \in 1..n |-> n + 1 - i]}

\* _calculate_trends is called on a frame of TrendRows rows (of one row, for
\* the frame that is too short); tie_break matters for rows of the same date
\* only.
InitTrends ==
    /\ pc = "call"
    /\ op = "_calculate_trends"
    /\ \E n \in {1, TrendRows} :
       \E dates \in TrendDates(n), revenues \in [1..n -> TrendValues],
          place \in DatePlaces \cup OtherPlaces, tie_break \in TieBreaks(n) :
            /\ (Cardinality({dates[i] : i \in 1..n}) = n \/ place \in OtherPlaces)
                    => tie_break[1] = 1
            /\ args = [data |-> placed(metric_columns(revenues), dates, place),
                       metrics |-> metric_columns(revenues),
                       dates |-> dates, place |-> place, tie_break |-> tie_break]
    /\ df = None
    /\ weather_df = None
    /\ estimator = None
    /\ result = None
    /\ fit_calls = 0
    /\ calls = <<>>
    /\ EngineInit
    /\ ServiceInit

\* _calculate_trends runs.
CalculateTrends ==
    /\ pc = "call"
    /\ op = "_calculate_trends"
    /\ result' = _calculate_trends(args.data, args.tie_break)
    /\ pc' = "return"
    /\ UNCHANGED serviceVars
    /\ UNCHANGED <<op, args, df, weather_df, estimator, fit_calls, calls,
                   customer_data, enhanced_data, analysis_results>>

NextTrends == CalculateTrends

SpecTrends == InitTrends /\ [][NextTrends]_vars

\* The orders of the positions 1..n by date: the dates do not decrease.
DateOrders(dates) ==
    { p \in [1..Len(dates) -> 1..Len(dates)] :
        /\ \A i, j \in 1..Len(dates) : i # j => p[i] # p[j]
        /\ \A i \in 1..(Len(dates) - 1) : dates[p[i]] <= dates[p[i + 1]] }

\* The sum and the number of the cells of positions lo..hi of the order p
\* that are not missing.
SumOver(cells, p, lo, hi) ==
    SumSeq([k \in 1..(hi - lo + 1) |->
                IF cells[p[lo + k - 1]] = NaN THEN 0 ELSE cells[p[lo + k - 1]]])

CountOver(cells, p, lo, hi) ==
    Cardinality({k \in lo..hi : cells[p[k]] # NaN})

\* t is the trend of the cells for the halves of the order p: no entry when
\* the first-half mean is not positive, else 100 x (second-half mean -
\* first-half mean) / first-half mean to the nearest hundredth.
IsTrendOf(trends, metric, cells, p) ==
    LET n  == Len(cells)
        s1 == SumOver(cells, p, 1, n \div 2)
        n1 == CountOver(cells, p, 1, n \div 2)
        s2 == SumOver(cells, p, (n \div 2) + 1, n)
        n2 == CountOver(cells, p, (n \div 2) + 1, n)
    IN  IF n1 = 0 \/ s1 <= 0 THEN metric \notin DOMAIN trends
        ELSE /\ metric \in DOMAIN trends
             /\ IF n2 = 0 THEN trends[metric] = NaN
                ELSE /\ trends[metric] # NaN
                     /\ 2 * Abs(trends[metric] * (s1 * n2)
                                    - 10000 * (s2 * n1 - s1 * n2)) <= s1 * n2

\* C19: for data of at least two rows _calculate_trends gives the same result
\* whether the dates are in a column date, order_date or ds or in a
\* DatetimeIndex, and the result is, for each of total_revenue, order_count
\* and unique_customers whose first-half mean is positive, 100 x (second-half
\* mean - first-half mean) / first-half mean rounded to two decimals, the
\* halves being the first len//2 rows and the other rows in date order.
C19_TrendsByDateOrder ==
    (op = "_calculate_trends" /\ pc = "return" /\ Len(args.dates) >= 2
        /\ args.place \in DatePlaces) =>
        /\ \A place \in DatePlaces :
              _calculate_trends(placed(args.metrics, args.dates, place), args.tie_break)
                  = result
        /\ DOMAIN result \subseteq TrendMetrics \cap DOMAIN args.metrics
        /\ \E p \in DateOrders(args.dates) :
              \A metric \in TrendMetrics \cap DOMAIN args.metrics :
                  IsTrendOf(result, metric, args.metrics[metric], p)

\* Revenues 300, 100, 100 dated the 3rd, the 1st and the 2nd, in the column
\* ds: the halves are the row of the 1st and the rows of the 2nd and 3rd, and
\* the trend of the revenue is +100 percent.
C19_Witness ==
    /\ op = "_calculate_trends"
    /\ pc = "return"
    /\ args.place = "ds"
    /\ args.dates = <<20230103, 20230101, 20230102>>
    /\ args.metrics["total_revenue"] = <<300, 100, 100>>
    /\ result["total_revenue"] = 10000
    /\ result["order_count"] = 0

\* A frame without dates (a RangeIndex and no date column) has no trends.
C19_NoDatesNoTrends ==
    (op = "_calculate_trends" /\ pc = "return" /\ args.place = "nowhere") =>
        result = EmptyDict

\* A frame of one row has no trends.
C19_OneRowNoTrends ==
    /\ op = "_calculate_trends"
    /\ pc = "return"
    /\ Len(args.dates) = 1
    /\ result = EmptyDict

\* A trend that is no whole number of hundredths: -83.33 percent.
C19_Rounded ==
    /\ op = "_calculate_trends"
    /\ pc = "return"
    /\ args.place = "DatetimeIndex"
    /\ "total_revenue" \in DOMAIN result
    /\ result["total_revenue"] = 0 - 8333

----------------------------------------------------------------------------
(* The analysis service: requests in flight on the one shared engine       *)
(*                                                                         *)
(* analysis_service is one object of main.py and holds one engine.  Each   *)
(* request is a coroutine that hands the engine's methods to the default   *)
(* thread pool and awaits them, so the steps of different requests         *)
(* interleave at every await and every thread switch.  A panel is the      *)
(* record [loaded_by, start, end]: which request's load_integrated_data    *)
(* produced it and for which days (counted from today = 0).                *)

\* The variables of a single engine call, idle while requests are served.
callVars == <<pc, op, args, df, weather_df, estimator, result, fit_calls, calls>>

NoCall ==
    /\ pc = "serve"
    /\ op = "serve"
    /\ args = None
    /\ df = None
    /\ weather_df = None
    /\ estimator = None
    /\ result = None
    /\ fit_calls = 0
    /\ calls = <<>>

\* How many requests are in flight at once.
Requests == 2

\* self.cache_ttl, in seconds
cache_ttl == 3600

\* _get_cache_key(method, params): the method with its parameters (the digest
\* of their JSON text is one-to-one on the parameters of the model).
_get_cache_key(method, params) == <<method, params>>

\* _get_from_cache(key) at time t on the cache c.  Returns [data, cache]: the
\* entry's data or None, and self.cache afterwards (a stale entry is deleted).
_get_from_cache(c, key, t) ==
    IF key \notin DOMAIN c THEN [data |-> None, cache |-> c]
    ELSE IF t - c[key].time < cache_ttl THEN [data |-> c[key].data, cache |-> c]
    ELSE [data |-> None, cache |-> [k \in DOMAIN c \ {key} |-> c[k]]]

\* _save_to_cache(key, data) at time t
_save_to_cache(c, key, data, t) == SetItem(c, key, [data |-> data, time |-> t])

\* get_sales_forecast loads the last 60 days (lines 217-218).
ForecastRange == [start |-> 0 - 60, end |-> 0]

\* The daily report of main.py and of get_daily_report_summary: yesterday..today.
ReportRange == [start |-> 0 - 1, end |-> 0]

\* The requests a client can make, with their parameters.
RequestKinds ==
    {[method |-> "get_sales_forecast", params |-> [days |-> 7]],
     [method |-> "get_daily_report", params |-> ReportRange]}
    \cup {[method |-> "run_causal_analysis",
           params |-> [start |-> r.start, end |-> r.end, type |-> "full"]] :
             r \in {ForecastRange, ReportRange}}

\* The days a request loads.
range_of(task) ==
    IF task.method = "get_sales_forecast" THEN ForecastRange
    ELSE [start |-> task.params.start, end |-> task.params.end]

\* The frame load_integrated_data(start_date, end_date) returns to request i.
load_integrated_data(i, range) ==
    [loaded_by |-> i, start |-> range.start, end |-> range.end]

\* The weather frame fetched for the states of a panel.
weather_for(panel) == [fetched_for |-> panel]

\* The frame create_all_features(sales_df, weather_df) stores in enhanced_data.
engineered(panel, w) == [panel |-> panel, weather |-> w]

\* The days of history in an engineered panel.
days_of(enhanced) == enhanced.panel.end - enhanced.panel.start + 1

\* create_sales_forecast needs 30 days of history (line 557).
MinForecastDays == 30

\* create_sales_forecast(days), reading self.enhanced_data = e.
create_sales_forecast(e) ==
    IF e = None THEN EmptyDict
    ELSE IF days_of(e) < MinForecastDays
    THEN [error |-> "not enough data", required_days |-> MinForecastDays,
          current_days |-> days_of(e)]
    ELSE [forecast |-> [history |-> e.panel], summary |-> [computed_from |-> e.panel],
          method |-> "Polynomial Regression"]

\* What a request returns when the engine raised: the mock report of
\* get_daily_report, {"error": ...} of the other two.
fallback(method) ==
    IF method = "get_daily_report"
    THEN [date |-> 0, metrics |-> [mock |-> TRUE]]
    ELSE [error |-> "exception"]

\* get_sales_forecast that saves whatever it returns, an error result
\* included.
forecast_result_saved(fr) ==
    IF "error" \in DOMAIN fr THEN [store |-> TRUE, value |-> fr]
    ELSE [store |-> TRUE,
          value |-> [forecast |-> get(fr, "summary", EmptyDict),
                     chart_data |-> get(fr, "forecast", EmptyDict),
                     method |-> get(fr, "method", None)]]

\* Lines 249-277 of get_sales_forecast: [store, value].
forecast_result(fr) ==
    IF "error" \in DOMAIN fr THEN [store |-> FALSE, value |-> fr]
    ELSE [store |-> TRUE,
          value |-> [forecast |-> get(fr, "summary", EmptyDict),
                     chart_data |-> get(fr, "forecast", EmptyDict),
                     method |-> get(fr, "method", None)]]

\* Lines 103-129 of get_daily_report on the summary's enhanced_data.
report_result(e, params) ==
    IF e = None THEN [store |-> FALSE, value |-> fallback("get_daily_report")]
    ELSE [store |-> TRUE,
          value |-> [date |-> params.end, metrics |-> [computed_from |-> e.panel]]]

\* Lines 181-199 of run_causal_analysis on the summary's forecast_results.
analysis_result(fr, params) ==
    [store |-> TRUE,
     value |-> [period |-> [start |-> params.start, end |-> params.end],
                forecast |-> IF ~truthy_dict(fr) THEN None
                             ELSE IF "error" \in DOMAIN fr THEN fr
                             ELSE [summary |-> fr.summary, method |-> fr.method]]]

\* The last step of each request on the engine's enhanced_data e.
finished(task, e) ==
    IF task.method = "get_sales_forecast" THEN forecast_result(create_sales_forecast(e))
    ELSE IF task.method = "get_daily_report" THEN report_result(e, task.params)
    ELSE analysis_result(create_sales_forecast(e), task.params)

InitRequests ==
    /\ NoCall
    /\ EngineInit
    /\ raw_data = None
    /\ tasks \in [1..Requests ->
                    {[method |-> k.method, params |-> k.params, pc |-> "call",
                      sales_df |-> None, weather |-> None, result |-> None,
                      cached |-> FALSE] : k \in RequestKinds}]
    /\ active_connections = EmptyDict
    /\ sessions = EmptyDict
    /\ cache = EmptyDict
    /\ now = 0

\* The first lines of each method: the cache is consulted and a true entry is
\* returned; else the request goes on to the engine.
Begin(i) ==
    /\ tasks[i].pc = "call"
    /\ \E hit \in {_get_from_cache(cache, _get_cache_key(tasks[i].method, tasks[i].params), now)} :
          /\ cache' = hit.cache
          /\ tasks' = IF truthy_dict(hit.data)
                      THEN [tasks EXCEPT ![i].pc = "return", ![i].result = hit.data,
                                         ![i].cached = TRUE]
                      ELSE [tasks EXCEPT ![i].pc = "load"]
    /\ UNCHANGED <<raw_data, active_connections, sessions, now>>
    /\ UNCHANGED callVars
    /\ UNCHANGED engineVars

\* load_integrated_data runs in a pool thread: it stores a copy of the loaded
\* frame in self.raw_data (line 153), or the query raises and the request
\* returns its fallback.
Load(i) ==
    /\ tasks[i].pc = "load"
    /\ \/ /\ raw_data' = load_integrated_data(i, range_of(tasks[i]))
          /\ tasks' = [tasks EXCEPT
                         ![i].pc = IF tasks[i].method = "get_sales_forecast"
                                   THEN "weather" ELSE "features",
                         ![i].sales_df = IF tasks[i].method = "get_sales_forecast"
                                         THEN None
                                         ELSE load_integrated_data(i, range_of(tasks[i]))]
       \/ /\ raw_data' = raw_data
          /\ tasks' = [tasks EXCEPT ![i].pc = "return",
                                    ![i].result = fallback(tasks[i].method)]
    /\ UNCHANGED <<active_connections, sessions, cache, now>>
    /\ UNCHANGED callVars
    /\ UNCHANGED engineVars

\* get_sales_forecast, lines 229-235: get_weather_data on self.engine.raw_data
\* as it is when the coroutine resumes.
Weather(i) ==
    /\ tasks[i].pc = "weather"
    /\ tasks' = [tasks EXCEPT ![i].pc = "features", ![i].weather = weather_for(raw_data)]
    /\ UNCHANGED <<raw_data, active_connections, sessions, cache, now>>
    /\ UNCHANGED callVars
    /\ UNCHANGED engineVars

\* create_all_features stores the engineered frame in self.enhanced_data
\* (line 400): get_sales_forecast passes self.engine.raw_data as it is now
\* (lines 238-243), run_complete_analysis its own sales_df (lines 1074-1077).
Features(i) ==
    /\ tasks[i].pc = "features"
    /\ enhanced_data' =
          IF tasks[i].method = "get_sales_forecast"
          THEN engineered(raw_data, tasks[i].weather)
          ELSE engineered(tasks[i].sales_df, weather_for(tasks[i].sales_df))
    /\ tasks' = [tasks EXCEPT ![i].pc = "forecast"]
    /\ UNCHANGED <<raw_data, active_connections, sessions, cache, now>>
    /\ UNCHANGED callVars
    /\ UNCHANGED <<customer_data, analysis_results>>

\* The rest of the request: create_sales_forecast and the summary of
\* run_complete_analysis read self.enhanced_data (lines 549 and 1099), the
\* method formats the result, stores it in the cache and returns it.
Finish(i) ==
    /\ tasks[i].pc = "forecast"
    /\ \E r \in {finished(tasks[i], enhanced_data)} :
          /\ tasks' = [tasks EXCEPT ![i].pc = "return", ![i].result = r.value]
          /\ cache' = IF r.store
                      THEN _save_to_cache(cache,
                               _get_cache_key(tasks[i].method, tasks[i].params),
                               r.value, now)
                      ELSE cache
    /\ UNCHANGED <<raw_data, active_connections, sessions, now>>
    /\ UNCHANGED callVars
    /\ UNCHANGED engineVars

NextRequests ==
    \E i \in 1..Requests :
        Begin(i) \/ Load(i) \/ Weather(i) \/ Features(i) \/ Finish(i)

SpecRequests == InitRequests /\ [][NextRequests]_vars

\* Request i returned a forecast it computed itself.
Forecast(i) ==
    /\ tasks[i].method = "get_sales_forecast"
    /\ tasks[i].pc = "return"
    /\ ~tasks[i].cached
    /\ "chart_data" \in DOMAIN tasks[i].result

\* C21: under any interleaving of concurrent requests on the shared engine,
\* the forecast one get_sales_forecast invocation returns is computed from
\* the panel this same invocation loaded, never from raw_data or
\* enhanced_data written by a concurrent request.
C21_ForecastFromOwnPanel ==
    \A i \in 1..Requests :
        Forecast(i) => tasks[i].result.forecast.computed_from.loaded_by = i

\* A forecast was computed from the panel a concurrent causal analysis loaded.
C21_ForecastFromAnalysisPanel ==
    \E i \in 1..Requests :
        /\ Forecast(i)
        /\ tasks[i].result.forecast.computed_from.loaded_by # i
        /\ tasks[tasks[i].result.forecast.computed_from.loaded_by].method
              = "run_causal_analysis"

\* A forecast request that loaded 61 days was answered "not enough data",
\* from the two days a concurrent request had engineered.
C21_ForecastFromTwoDays ==
    \E i \in 1..Requests :
        /\ tasks[i].method = "get_sales_forecast"
        /\ tasks[i].pc = "return"
        /\ "current_days" \in DOMAIN tasks[i].result
        /\ tasks[i].result.current_days = 2

\* A request that runs while no other request has reached the engine gets the
\* forecast of its own panel.
C21_AloneFromOwnPanel ==
    \A i \in 1..Requests :
        (Forecast(i) /\ \A j \in 1..Requests \ {i} : tasks[j].pc = "call")
            => tasks[i].result.forecast.computed_from.loaded_by = i

----------------------------------------------------------------------------
(* The chat manager (backend/app/chat_manager.py)                          *)
(*                                                                         *)
(* sessions maps a session id to its ChatSession, a record of the fields   *)
(* of the object; a message is [role, content, timestamp, data].  Times   *)
(* are seconds.                                                            *)

\* ChatSession(session_id) created at time t
ChatSession(session_id, t) ==
    [session_id |-> session_id, created_at |-> t, last_activity |-> t,
     messages |-> <<>>, context |-> EmptyDict, analysis_cache |-> EmptyDict]

\* add_message keeps at most this many messages (lines 36-37).
HistoryLimit == 50

\* s[-n:] of a Python list: the last n items for 0 < n, the whole list for
\* n = 0 (-0 is 0), the items from index -n on for n < 0.
tail_slice(s, n) ==
    IF n > 0 THEN SubSeq(s, (IF n >= Len(s) THEN 0 ELSE Len(s) - n) + 1, Len(s))
    ELSE SubSeq(s, (IF 0 - n >= Len(s) THEN Len(s) ELSE 0 - n) + 1, Len(s))

\* add_message that keeps the first 50 messages instead of the last.
add_message_keep_first(session, role, content, data, t) ==
    [session EXCEPT
        !.messages = SubSeq(Append(@, [role |-> role, content |-> content,
                                       timestamp |-> t, data |-> data]),
                            1, IF Len(@) + 1 > HistoryLimit THEN HistoryLimit ELSE Len(@) + 1),
        !.last_activity = t]

\* ChatSession.add_message(role, content, data) at time t
add_message(session, role, content, data, t) ==
    [session EXCEPT
        !.messages =
            IF Len(@) + 1 > HistoryLimit
            THEN tail_slice(Append(@, [role |-> role, content |-> content,
                                       timestamp |-> t, data |-> data]), HistoryLimit)
            ELSE Append(@, [role |-> role, content |-> content,
                            timestamp |-> t, data |-> data]),
        !.last_activity = t]

\* ChatSession.get_history(max_messages)
get_history(session, max_messages) == tail_slice(session.messages, max_messages)

\* ChatSession.update_context(key, value) at time t
update_context(session, key, value, t) ==
    [session EXCEPT !.context = SetItem(@, key, value), !.last_activity = t]

\* ChatSession.cache_analysis(key, data, ttl) at time t
cache_analysis(session, key, data, ttl, t) ==
    [session EXCEPT
        !.analysis_cache = SetItem(@, key, [data |-> data, cached_at |-> t, ttl |-> ttl])]

\* ChatManager.create_or_get_session(session_id): self.sessions afterwards.
create_or_get_session(ss, session_id, t) ==
    IF session_id \notin DOMAIN ss THEN SetItem(ss, session_id, ChatSession(session_id, t))
    ELSE ss

\* ChatManager.add_message(session_id, role, content, data)
ChatManager_add_message(ss, session_id, role, content, data, t) ==
    [create_or_get_session(ss, session_id, t) EXCEPT
        ![session_id] = add_message(@, role, content, data, t)]

\* ChatManager.get_history(session_id, max_messages)
ChatManager_get_history(ss, session_id, max_messages) ==
    IF session_id \in DOMAIN ss THEN get_history(ss[session_id], max_messages)
    ELSE <<>>

\* ChatManager.update_context(session_id, key, value)
ChatManager_update_context(ss, session_id, key, value, t) ==
    [create_or_get_session(ss, session_id, t) EXCEPT
        ![session_id] = update_context(@, key, value, t)]

\* ChatManager.cache_analysis(session_id, key, data, ttl)
ChatManager_cache_analysis(ss, session_id, key, data, ttl, t) ==
    [create_or_get_session(ss, session_id, t) EXCEPT
        ![session_id] = cache_analysis(@, key, data, ttl, t)]

\* ChatManager.cleanup_session(session_id)
cleanup_session(ss, session_id) ==
    [k \in DOMAIN ss \ {session_id} |-> ss[k]]

----------------------------------------------------------------------------
(* One session that receives messages and is asked for its history *)

\* add_message is called at most this many times.
MaxMessages == 53

\* The max_messages a caller passes to get_history: the default 10, the
\* limit and its neighbours, and 0.
HistoryArgs == {0, 1, 10, 49, 50, 51}

InitHistory ==
    /\ pc = "call"
    /\ op = "add_message"
    /\ args = None
    /\ df = None
    /\ weather_df = None
    /\ estimator = None
    /\ result = <<>>
    /\ fit_calls = 0
    /\ calls = <<>>
    /\ EngineInit
    /\ ServiceInit

\* chat_manager.add_message("s1", role, content): the texts are numbered in
\* the order they are added (calls keeps them all), one second apart.
AddMessage ==
    /\ Len(calls) < MaxMessages
    /\ sessions' = ChatManager_add_message(sessions, "s1",
                       IF Len(calls) % 2 = 0 THEN "user" ELSE "bot",
                       Len(calls) + 1, None, now)
    /\ calls' = Append(calls, Len(calls) + 1)
    /\ now' = now + 1
    /\ pc' = "return"
    /\ op' = "add_message"
    /\ args' = None
    /\ result' = <<>>
    /\ UNCHANGED <<df, weather_df, estimator, fit_calls, raw_data, tasks,
                   active_connections, cache>>
    /\ UNCHANGED engineVars

\* chat_manager.get_history("s1", max_messages)
GetHistory ==
    /\ \E n \in HistoryArgs :
          /\ args' = [max_messages |-> n]
          /\ result' = ChatManager_get_history(sessions, "s1", n)
    /\ pc' = "return"
    /\ op' = "get_history"
    /\ UNCHANGED <<df, weather_df, estimator, fit_calls, calls>>
    /\ UNCHANGED serviceVars
    /\ UNCHANGED engineVars

NextHistory == AddMessage \/ GetHistory

SpecHistory == InitHistory /\ [][NextHistory]_vars

\* The messages stored for session s1.
Stored == IF "s1" \in DOMAIN sessions THEN sessions["s1"].messages ELSE <<>>

\* The smaller of two numbers.
Least(a, b) == IF a <= b THEN a ELSE b

\* C29: after any sequence of add_message calls the stored history holds at
\* most 50 messages and is exactly the most recently added messages in the
\* order they were added; get_history(n) with n >= 1 returns the last
\* min(n, length) of them in that order.
C29_LastFiftyInOrder ==
    /\ Len(Stored) = Least(HistoryLimit, Len(calls))
    /\ \A k \in 1..Len(Stored) :
          Stored[k].content = calls[Len(calls) - Len(Stored) + k]
    /\ (op = "get_history" /\ pc = "return" /\ args.max_messages >= 1)
          => /\ Len(result) = Least(args.max_messages, Len(Stored))
             /\ \A k \in 1..Len(result) :
                   result[k] = Stored[Len(Stored) - Len(result) + k]

\* More than 50 messages were added and the last ten were asked for.
C29_Witness ==
    /\ Len(calls) > HistoryLimit
    /\ op = "get_history"
    /\ pc = "return"
    /\ args.max_messages = 10
    /\ Len(result) = 10
    /\ result[10].content = Len(calls)
    /\ Stored[1].content = Len(calls) - HistoryLimit + 1

\* get_history(0) returns the whole history, not the last 0 messages.
C29_ZeroIsAll ==
    /\ op = "get_history"
    /\ pc = "return"
    /\ args.max_messages = 0
    /\ Len(result) = 3

----------------------------------------------------------------------------
(* The sessions of a chat manager over time, with its cleanup loop *)

\* self.cleanup_interval and self.session_timeout, in seconds
cleanup_interval == 3600

session_timeout == 7200

\* _cleanup_expired_sessions that also removes a session idle for exactly
\* the timeout.
_cleanup_sessions_at_timeout(ss, t) ==
    [k \in {id \in DOMAIN ss : ~(t - ss[id].last_activity >= session_timeout)} |-> ss[k]]

\* _cleanup_expired_sessions() at time t: self.sessions afterwards.
_cleanup_expired_sessions(ss, t) ==
    [k \in {id \in DOMAIN ss : ~(t - ss[id].last_activity > session_timeout)} |-> ss[k]]

SessionIds == {"s1", "s2"}

\* The clock advances in steps of one cleanup interval, this many times.
MaxTicks == 3

\* Session s1 is sent at most this many messages; s2 is only ever opened.
MaxSessionMessages == 2

\* calls[id] is the time session id was last created, sent a message or had
\* its context updated (-1: never).
InitSessions ==
    /\ pc = "call"
    /\ op = "ChatManager"
    /\ args = None
    /\ df = None
    /\ weather_df = None
    /\ estimator = None
    /\ result = None
    /\ fit_calls = 0
    /\ calls = [id \in SessionIds |-> 0 - 1]
    /\ EngineInit
    /\ raw_data = None
    /\ tasks = [pc |-> "idle", wake |-> 0]
    /\ active_connections = EmptyDict
    /\ sessions = EmptyDict
    /\ cache = EmptyDict
    /\ now = 0

\* What no action of the chat manager changes.
sessionFrame == <<pc, op, args, df, weather_df, estimator, result, fit_calls,
                  raw_data, active_connections, cache>>

\* ChatManager.initialize(): the cleanup loop starts and sleeps.
Initialize ==
    /\ tasks.pc = "idle"
    /\ tasks' = [pc |-> "sleep", wake |-> now + cleanup_interval]
    /\ UNCHANGED <<sessions, calls, now>>
    /\ UNCHANGED sessionFrame
    /\ UNCHANGED engineVars

\* Time passes.
Tick ==
    /\ now + cleanup_interval <= MaxTicks * cleanup_interval
    /\ now' = now + cleanup_interval
    /\ UNCHANGED <<sessions, calls, tasks>>
    /\ UNCHANGED sessionFrame
    /\ UNCHANGED engineVars

\* create_or_get_session(id)
CreateOrGetSession(id) ==
    /\ sessions' = create_or_get_session(sessions, id, now)
    /\ calls' = IF id \in DOMAIN sessions THEN calls ELSE [calls EXCEPT ![id] = now]
    /\ UNCHANGED <<tasks, now>>
    /\ UNCHANGED sessionFrame
    /\ UNCHANGED engineVars

\* add_message(id, "user", "hi")
AddMessageTo(id) ==
    /\ Len(ChatManager_get_history(sessions, id, 0)) < MaxSessionMessages
    /\ sessions' = ChatManager_add_message(sessions, id, "user", "hi", None, now)
    /\ calls' = [calls EXCEPT ![id] = now]
    /\ UNCHANGED <<tasks, now>>
    /\ UNCHANGED sessionFrame
    /\ UNCHANGED engineVars

\* update_context(id, "store", 1), once in the life of a session
UpdateContext(id) ==
    /\ id \in DOMAIN sessions => "store" \notin DOMAIN sessions[id].context
    /\ sessions' = ChatManager_update_context(sessions, id, "store", 1, now)
    /\ calls' = [calls EXCEPT ![id] = now]
    /\ UNCHANGED <<tasks, now>>
    /\ UNCHANGED sessionFrame
    /\ UNCHANGED engineVars

\* cache_analysis(id, "report", 1), once, on a session that exists
CacheAnalysis(id) ==
    /\ id \in DOMAIN sessions
    /\ "report" \notin DOMAIN sessions[id].analysis_cache
    /\ sessions' = ChatManager_cache_analysis(sessions, id, "report", 1, 3600, now)
    /\ UNCHANGED <<tasks, now, calls>>
    /\ UNCHANGED sessionFrame
    /\ UNCHANGED engineVars

\* _cleanup_loop: asyncio.sleep(cleanup_interval) is over, the expired
\* sessions are removed and the loop sleeps again.
CleanupLoop ==
    /\ tasks.pc = "sleep"
    /\ now >= tasks.wake
    /\ sessions' = _cleanup_expired_sessions(sessions, now)
    /\ tasks' = [tasks EXCEPT !.wake = now + cleanup_interval]
    /\ UNCHANGED <<calls, now>>
    /\ UNCHANGED sessionFrame
    /\ UNCHANGED engineVars

NextSessions ==
    \/ Initialize
    \/ Tick
    \/ CleanupLoop
    \/ \E id \in SessionIds : CreateOrGetSession(id)
    \/ AddMessageTo("s1")
    \/ UpdateContext("s1")
    \/ CacheAnalysis("s1")

SpecSessions == InitSessions /\ [][NextSessions]_vars

\* This step is a run of _cleanup_expired_sessions.
CleanupRuns == tasks.pc = "sleep" /\ tasks'.wake # tasks.wake

\* C30: a run of _cleanup_expired_sessions removes exactly the sessions whose
\* last activity (creation, add_message or update_context) lies more than
\* session_timeout (7200 s) in the past and leaves every other session, with
\* its messages, context and cache, unchanged; so a session that was active
\* less than the timeout ago is not removed.
C30_RemovesExactlyExpired ==
    [][CleanupRuns =>
          /\ DOMAIN sessions' = {id \in DOMAIN sessions : now - calls[id] <= session_timeout}
          /\ \A id \in DOMAIN sessions' : sessions'[id] = sessions[id]
          /\ \A id \in DOMAIN sessions :
                now - calls[id] < session_timeout => id \in DOMAIN sessions']_vars

\* A cleanup has removed s2, idle for more than two hours, and left s1, last
\* active exactly two hours before, with its message.
C30_Witness ==
    /\ tasks.wake = now + cleanup_interval
    /\ "s2" \notin DOMAIN sessions
    /\ calls["s2"] >= 0
    /\ now - calls["s2"] > session_timeout
    /\ "s1" \in DOMAIN sessions
    /\ now - calls["s1"] = session_timeout
    /\ Len(sessions["s1"].messages) = 1

\* Session s1, created at time 0 and sent a message every hour since, is
\* still there after the cleanup three hours later.
C30_KeepsReceiving ==
    /\ now = 3 * cleanup_interval
    /\ tasks.wake = now + cleanup_interval
    /\ "s1" \in DOMAIN sessions
    /\ sessions["s1"].created_at = 0
    /\ Len(sessions["s1"].messages) = 2
    /\ sessions["s1"].messages[1].timestamp = cleanup_interval
    /\ sessions["s1"].messages[2].timestamp = 2 * cleanup_interval

----------------------------------------------------------------------------
(* The analysis service: get_data_by_intent, and one chat message *)

\* datetime.strftime('%Y-%m-%d'): the text of a day is its year, month and day.
strftime(ts) == civil_from_days(ts)

\* A value that has .get: a dict, not None, a text or a number.
is_dict(v) == v # None /\ "str" \notin DOMAIN v /\ "num" \notin DOMAIN v

\* Lines 340-367 of _parse_time_range: the relative ranges.
relative_range(value, today) ==
    CASE value = "yesterday" ->
            [start |-> strftime(today - 1), end |-> strftime(today - 1)]
      [] value = "this_week" ->
            [start |-> strftime(today - dayofweek(today)), end |-> strftime(today)]
      [] value = "last_week" ->
            [start |-> strftime(today - (dayofweek(today) + 7)),
             end |-> strftime(today - (dayofweek(today) + 1))]
      [] value = "this_month" ->
            [start |-> strftime(today - (civil_from_days(today).day - 1)),
             end |-> strftime(today)]
      [] value = "last_month" ->
            [start |-> strftime(today - civil_from_days(today).day
                            - (civil_from_days(today - civil_from_days(today).day).day - 1)),
             end |-> strftime(today - civil_from_days(today).day)]
      [] OTHER -> [start |-> strftime(today), end |-> strftime(today)]

\* _parse_time_range(time_range) on the day today.  Returns [raised, start,
\* end]: time_range.get raises AttributeError when time_range is no dict.
_parse_time_range(time_range, today) ==
    IF ~is_dict(time_range)
    THEN [raised |-> TRUE, start |-> None, end |-> None]
    ELSE IF get(time_range, "type", "") = "absolute"
    THEN [raised |-> FALSE, start |-> get(time_range, "start", None),
          end |-> get(time_range, "end", None)]
    ELSE [raised |-> FALSE,
          start |-> relative_range(get(time_range, "value", "today"), today).start,
          end |-> relative_range(get(time_range, "value", "today"), today).end]

\* What a method of the service returns for a range: these methods catch
\* every exception of the engine, so each returns a dict.
service_data(method, start, end) ==
    [source |-> Str(<<method>>), start |-> start, end |-> end]

\* Lines 292-312 of get_data_by_intent: the data of an intent type.
data_by_type(intent_type, intent, start, end) ==
    CASE intent_type = "daily_report" -> service_data("get_daily_report", start, end)
      [] intent_type = "sales_analysis" -> service_data("get_daily_report", start, end)
      [] intent_type = "customer_analysis" -> [message |-> Str(<<"customer analysis">>)]
      [] intent_type = "promotion_analysis" -> [message |-> Str(<<"promotion analysis">>)]
      [] intent_type = "causal_analysis" -> service_data("run_causal_analysis", start, end)
      [] intent_type = "forecast" ->
            [source |-> Str(<<"get_sales_forecast">>),
             days |-> get(intent, "forecast_days", Num(7))]
      [] intent_type = "comparison" -> [message |-> Str(<<"comparison">>)]
      [] OTHER -> EmptyDict

\* get_data_by_intent(intent) on the day today.  Returns [raised, value].
get_data_by_intent(intent, today) ==
    IF _parse_time_range(get(intent, "time_range", EmptyDict), today).raised
    THEN [raised |-> TRUE, value |-> None]
    ELSE [raised |-> FALSE,
          value |-> data_by_type(
                        get(intent, "intent_type", "general"), intent,
                        _parse_time_range(get(intent, "time_range", EmptyDict), today).start,
                        _parse_time_range(get(intent, "time_range", EmptyDict), today).end)]

\* Lines 259-262 of websocket_endpoint: the answer of the SQL generator is
\* added to the data when it succeeded.
with_additional_data(analysis_data, success) ==
    IF success THEN SetItem(analysis_data, "additional_data", [type |-> Str(<<"table">>)])
    ELSE analysis_data

\* The error message of lines 320-327.
error_message == [type |-> "error", message |-> "error processing message", data |-> None]

\* Lines 264-284 on the data of the intent: the reply that is sent.
chat_response(user_message, llm_again, analysis_data, history) ==
    IF generate_response(user_message, llm_again, analysis_data, history, "ok").raised
    THEN error_message
    ELSE [type |-> "bot_message",
          message |-> generate_response(user_message, llm_again, analysis_data,
                                        history, "ok").value.message,
          data |-> generate_response(user_message, llm_again, analysis_data,
                                     history, "ok").value.data]

\* Lines 246-285 and 320-327 of websocket_endpoint: the message sent in answer
\* to a chat message.  llm_intent is what the LLM replies when the intent is
\* parsed, llm_again what it replies when generate_response parses it again.
chat_reply(user_message, llm_intent, llm_again, today, sql_success, history) ==
    IF parse_query_intent(user_message, llm_intent).raised THEN error_message
    ELSE IF get_data_by_intent(parse_query_intent(user_message, llm_intent).value, today).raised
    THEN error_message
    ELSE chat_response(
             user_message, llm_again,
             with_additional_data(
                 get_data_by_intent(parse_query_intent(user_message, llm_intent).value,
                                    today).value,
                 sql_success),
             history)

\* The days on which a message arrives: Monday 2024-01-01, Friday 2024-03-01
\* (the month before has 29 days), Wednesday 2024-07-10.
Todays ==
    {days_from_civil(2024, 1, 1), days_from_civil(2024, 3, 1), days_from_civil(2024, 7, 10)}

\* The time_range of an LLM reply: a dict of the documented shapes, an empty
\* dict, JSON null, a text.
TimeRanges ==
    {EmptyDict, None, Str(<<"last week">>),
     [type |-> "absolute", start |-> strftime(days_from_civil(2024, 2, 1)),
      end |-> strftime(days_from_civil(2024, 2, 29))],
     [type |-> "absolute"]}
    \cup {[type |-> "relative", value |-> v] :
            v \in {"today", "yesterday", "this_week", "last_week", "this_month",
                   "last_month", "next_year"}}

\* The intent types get_data_by_intent knows, and two it does not.
DataIntentTypes ==
    {"daily_report", "sales_analysis", "customer_analysis", "promotion_analysis",
     "causal_analysis", "forecast", "comparison", "general", "data_query"}

\* What _parse_intent_with_llm returns for a chat message: None, or a reply
\* with an intent type, a confidence, and possibly a time_range.
ChatIntents ==
    {None}
    \cup {[intent_type |-> t, confidence |-> c] : t \in DataIntentTypes, c \in {20, 90}}
    \cup {[intent_type |-> t, confidence |-> 90, time_range |-> r] :
            t \in DataIntentTypes, r \in TimeRanges}

InitChat ==
    /\ pc = "call"
    /\ \/ /\ op = "get_data_by_intent"
          /\ \E l \in ChatIntents, d \in Todays :
                args = [intent |-> parse_query_intent("hello", l).value, today |-> d]
       \/ /\ op = "chat"
          /\ \E l \in ChatIntents, d \in Todays, s \in BOOLEAN :
                args = [message |-> "hello", llm_intent |-> l, today |-> d,
                        sql_success |-> s]
    /\ df = None
    /\ weather_df = None
    /\ estimator = None
    /\ result = None
    /\ fit_calls = 0
    /\ calls = <<>>
    /\ EngineInit
    /\ raw_data = None
    /\ tasks = <<>>
    /\ active_connections = EmptyDict
    /\ sessions = create_or_get_session(EmptyDict, "s1", 0)
    /\ cache = EmptyDict
    /\ now = 0

\* analysis_service.get_data_by_intent(intent)
GetDataByIntent ==
    /\ pc = "call"
    /\ op = "get_data_by_intent"
    /\ \E r \in {get_data_by_intent(args.intent, args.today)} :
          /\ pc' = IF r.raised THEN "raise" ELSE "return"
          /\ result' = r.value
    /\ UNCHANGED <<op, args, df, weather_df, estimator, fit_calls, calls>>
    /\ UNCHANGED serviceVars
    /\ UNCHANGED engineVars

\* One pass of the message loop for a chat message of session s1: the user
\* message is stored, the reply is computed, the bot reply is stored when
\* there is one, and the reply or the error message is sent.
ChatMessage ==
    /\ pc = "call"
    /\ op = "chat"
    /\ \E r \in {chat_reply(args.message, args.llm_intent, args.llm_intent, args.today,
                            args.sql_success,
                            ChatManager_get_history(
                                ChatManager_add_message(sessions, "s1", "user",
                                                        args.message, None, now),
                                "s1", 10))} :
          /\ result' = r
          /\ sessions' =
                IF r.type = "bot_message"
                THEN ChatManager_add_message(
                         ChatManager_add_message(sessions, "s1", "user", args.message,
                                                 None, now),
                         "s1", "bot", r.message, None, now)
                ELSE ChatManager_add_message(sessions, "s1", "user", args.message,
                                             None, now)
    /\ pc' = "return"
    /\ UNCHANGED <<op, args, df, weather_df, estimator, fit_calls, calls>>
    /\ UNCHANGED <<raw_data, tasks, active_connections, cache, now>>
    /\ UNCHANGED engineVars

NextChat == GetDataByIntent \/ ChatMessage

SpecChat == InitChat /\ [][NextChat]_vars

\* The time_range of the intent of this call is None.
NoTimeRange ==
    IF op = "get_data_by_intent" THEN args.intent.time_range = None
    ELSE parse_query_intent(args.message, args.llm_intent).value.time_range = None

\* C22: get_data_by_intent returns a data dictionary without raising for
\* every intent parse_query_intent can produce, an intent whose time_range is
\* None being treated as today..today; so a chat message whose processing
\* involves no other failure is answered with a bot_message.
C22_DataForEveryIntent ==
    /\ (op = "get_data_by_intent" /\ pc # "call")
          => /\ pc = "return"
             /\ result = get_data_by_intent(
                             [args.intent EXCEPT !.time_range =
                                 IF @ = None THEN [value |-> "today"] ELSE @],
                             args.today).value
    /\ (op = "chat" /\ pc = "return") => result.type = "bot_message"

\* With a time_range that is a dict, the data is returned and the chat
\* message is answered with a bot_message.
C22_DataForDictTimeRange ==
    /\ (op = "get_data_by_intent" /\ pc # "call" /\ is_dict(args.intent.time_range))
          => pc = "return"
    /\ (op = "chat" /\ pc = "return"
          /\ is_dict(parse_query_intent(args.message, args.llm_intent).value.time_range))
          => result.type = "bot_message"

\* Without one, it is not.
C22_NoDataWithoutTimeRange ==
    /\ (op = "get_data_by_intent" /\ pc # "call" /\ NoTimeRange) => pc = "raise"
    /\ (op = "chat" /\ pc = "return" /\ NoTimeRange) => result.type = "error"

\* The LLM gave no intent at all: the intent is the default one, and the chat
\* message is answered with the error message.
C22_DefaultIntentIsAnError ==
    /\ op = "chat"
    /\ pc = "return"
    /\ args.llm_intent = None
    /\ result.type = "error"
    /\ Len(sessions["s1"].messages) = 1

\* "last month" asked on 2024-03-01 is February 1 to 29.
C22_LastMonth ==
    /\ op = "get_data_by_intent"
    /\ pc = "return"
    /\ args.intent.intent_type = "daily_report"
    /\ args.today = days_from_civil(2024, 3, 1)
    /\ result.start = [year |-> 2024, month |-> 2, day |-> 1]
    /\ result.end = [year |-> 2024, month |-> 2, day |-> 29]
    /\ args.intent.time_range = [type |-> "relative", value |-> "last_month"]

----------------------------------------------------------------------------
(* The WebSocket endpoint (backend/app/main.py): connections and their     *)
(* handlers                                                                *)
(*                                                                         *)
(* tasks[w] is connection w and the websocket_endpoint coroutine serving   *)
(* it: its session id, the handler's position, whether the client still    *)
(* holds the connection, the client messages not yet received, and how     *)
(* many messages the handler has stored in the history.  The coroutines    *)
(* run on one event loop, so a handler runs from one await to the next     *)
(* without interruption.  Sending to, or receiving with nothing left from, *)
(* a client that has disconnected raises.                                  *)

\* The connections that are made.
Sockets == {1, 2}

\* How many messages the clients send in all.
MaxClientMessages == 2

SocketSessionIds == {"s1", "s2"}

\* The messages a client sends: a chat message, a ping, a text that is no JSON.
ClientMessages == {"chat", "ping", "bad_json"}

\* ConnectionManager.disconnect(session_id): active_connections afterwards.
disconnect(connections, session_id) ==
    [k \in DOMAIN connections \ {session_id} |-> connections[k]]

\* The handler has accepted connection w and is before or in its message loop.
Serving(w) == tasks[w].pc \in {"sleep", "receive", "chat"}

\* Connection w is open: accepted, and the client has not disconnected.
Open(w) == Serving(w) /\ tasks[w].client = "open"

\* An inner handler that goes on with the loop whatever the send does.
after_error_message_swallowed(client) == "receive"

\* Lines 312-327: an exception in the loop body is caught and an error message
\* is sent; the send raises when the client has disconnected, which ends the
\* loop, else the loop goes on.
after_error_message(client) == IF client = "closed" THEN "done" ELSE "receive"

\* The handler of w moves to position at; when that ends the handler, lines
\* 329-336 run: manager.disconnect(session_id) and cleanup_session(session_id).
\* ss is chat_manager.sessions as the step leaves it, n the messages stored.
Proceed(w, at, ss, n) ==
    /\ tasks' = [tasks EXCEPT ![w].pc = at,
                              ![w].inbox = IF tasks[w].pc = "receive" /\ @ # <<>>
                                           THEN Tail(@) ELSE @,
                              ![w].stored = @ + n]
    /\ sessions' = IF at = "done" THEN cleanup_session(ss, tasks[w].session_id) ELSE ss
    /\ active_connections' =
          IF at = "done" THEN disconnect(active_connections, tasks[w].session_id)
          ELSE IF tasks[w].pc = "accept"
          THEN SetItem(active_connections, tasks[w].session_id, w)
          ELSE active_connections

\* The first connection is for s1, the others for s1 or s2; calls counts the
\* client messages.
InitSockets ==
    /\ NoCall
    /\ EngineInit
    /\ raw_data = None
    /\ tasks \in {t \in [Sockets ->
                           {[session_id |-> s, pc |-> "accept", client |-> "open",
                             inbox |-> <<>>, stored |-> 0] : s \in SocketSessionIds}] :
                     t[1].session_id = "s1"}
    /\ active_connections = EmptyDict
    /\ sessions = EmptyDict
    /\ cache = EmptyDict
    /\ now = 0

socketFrame == <<pc, op, args, df, weather_df, estimator, result, fit_calls,
                 raw_data, cache, now>>

\* The client of w sends a message.
ClientSend(w) ==
    /\ Open(w)
    /\ Len(calls) < MaxClientMessages
    /\ \E kind \in ClientMessages :
          /\ tasks' = [tasks EXCEPT ![w].inbox = Append(@, kind)]
          /\ calls' = Append(calls, kind)
    /\ UNCHANGED <<active_connections, sessions>>
    /\ UNCHANGED socketFrame
    /\ UNCHANGED engineVars

\* The client of w disconnects.
ClientClose(w) ==
    /\ tasks[w].client = "open"
    /\ tasks' = [tasks EXCEPT ![w].client = "closed"]
    /\ UNCHANGED <<active_connections, sessions, calls>>
    /\ UNCHANGED socketFrame
    /\ UNCHANGED engineVars

\* Lines 194-211: accept, register the connection under its session id,
\* create or get the session, send the welcome message.  When the client is
\* gone already the accept or the send raises and the outer handler runs.
Connect(w) ==
    /\ tasks[w].pc = "accept"
    /\ IF tasks[w].client = "closed"
       THEN Proceed(w, "done", sessions, 0)
       ELSE Proceed(w, "sleep", create_or_get_session(sessions, tasks[w].session_id, now), 0)
    /\ UNCHANGED calls
    /\ UNCHANGED socketFrame
    /\ UNCHANGED engineVars

\* Lines 213-227: the daily report is sent; a failure is logged and ignored.
AfterSleep(w) ==
    /\ tasks[w].pc = "sleep"
    /\ Proceed(w, "receive", sessions, 0)
    /\ UNCHANGED calls
    /\ UNCHANGED socketFrame
    /\ UNCHANGED engineVars

\* Lines 230-243 and 304-327: receive_text returns the next message, or raises
\* once the client has disconnected and nothing is left.  A text that is no
\* JSON is answered with an error message; else the message is stored, a
\* ping is answered and a chat message goes on to be processed.
Receive(w) ==
    /\ tasks[w].pc = "receive"
    /\ tasks[w].inbox # <<>> \/ tasks[w].client = "closed"
    /\ IF tasks[w].inbox = <<>> \/ Head(tasks[w].inbox) = "bad_json"
       THEN Proceed(w, after_error_message(tasks[w].client), sessions, 0)
       ELSE IF Head(tasks[w].inbox) = "ping"
       THEN Proceed(w, after_error_message(tasks[w].client),
                    ChatManager_add_message(sessions, tasks[w].session_id, "user", "",
                                            None, now), 1)
       ELSE Proceed(w, "chat",
                    ChatManager_add_message(sessions, tasks[w].session_id, "user", "hello",
                                            None, now), 1)
    /\ UNCHANGED calls
    /\ UNCHANGED socketFrame
    /\ UNCHANGED engineVars

\* Lines 246-285 and 320-327: the chat message is processed; the reply is
\* stored and sent, or the processing fails and the error message is sent.
Reply(w) ==
    /\ tasks[w].pc = "chat"
    /\ \E l \in {None, [intent_type |-> "general", confidence |-> 90,
                        time_range |-> EmptyDict]} :
          IF chat_reply("hello", l, l, now, FALSE, <<>>).type = "bot_message"
          THEN Proceed(w, after_error_message(tasks[w].client),
                       ChatManager_add_message(sessions, tasks[w].session_id, "bot",
                           chat_reply("hello", l, l, now, FALSE, <<>>).message, None, now),
                       1)
          ELSE Proceed(w, after_error_message(tasks[w].client), sessions, 0)
    /\ UNCHANGED calls
    /\ UNCHANGED socketFrame
    /\ UNCHANGED engineVars

\* A step of the handler of w.
Handler(w) == Connect(w) \/ AfterSleep(w) \/ Receive(w) \/ Reply(w)

NextSockets ==
    \E w \in Sockets : ClientSend(w) \/ ClientClose(w) \/ Handler(w)

SpecSockets == InitSockets /\ [][NextSockets]_vars

\* The event loop runs every handler that can go on.
SpecSocketsLive ==
    SpecSockets /\ \A w \in Sockets : WF_vars(Handler(w))

\* C23: while a WebSocket connection for a session id is open,
\* active_connections has an entry for that id referring to an open
\* connection and the chat manager holds that id's session with its history,
\* whatever the interleaving of connects and disconnects, two connections
\* with the same session id included.
C23_OpenConnectionIsRegistered ==
    \A w \in Sockets :
        Open(w) =>
            /\ tasks[w].session_id \in DOMAIN active_connections
            /\ Open(active_connections[tasks[w].session_id])
            /\ tasks[w].session_id \in DOMAIN sessions
            /\ Len(sessions[tasks[w].session_id].messages) >= tasks[w].stored

\* The same for a connection whose session id no other connection uses.
C23_RegisteredWhenIdUnshared ==
    \A w \in Sockets :
        (Open(w) /\ \A v \in Sockets \ {w} : tasks[v].session_id # tasks[w].session_id)
            => /\ active_connections[tasks[w].session_id] = w
               /\ tasks[w].session_id \in DOMAIN sessions
               /\ Len(sessions[tasks[w].session_id].messages) >= tasks[w].stored

\* Two connections had session id s1; the first has disconnected and its
\* handler has finished; the second is open, has stored a message, and there
\* is neither an entry nor a session for s1.
C23_SecondConnectionOrphaned ==
    /\ tasks[1].pc = "done"
    /\ tasks[2].session_id = "s1"
    /\ Open(2)
    /\ tasks[2].stored > 0
    /\ "s1" \notin DOMAIN active_connections
    /\ "s1" \notin DOMAIN sessions

----------------------------------------------------------------------------
(* Properties of the per-store entries of the heterogeneity analyzer *)

\* C25: every store reported in promotion_by_store has at least one promoted
\* row and at least one non-promoted row, so its treated_mean, control_mean
\* and effect are all defined numbers; a store whose rows are all promoted is
\* not reported with an undefined effect.
C25_StoreEffectsDefined ==
    HeteroReturned =>
        \A id \in DOMAIN result.promotion_by_store :
            /\ StorePromotedRows(id) >= 1
            /\ StoreRows(id) - StorePromotedRows(id) >= 1
            /\ ~IsNaNMean(result.promotion_by_store[id].treated_mean)
            /\ ~IsNaNMean(result.promotion_by_store[id].control_mean)
            /\ ~IsNaNMean(result.promotion_by_store[id].effect)

\* A reported store that has rows of both kinds has the three numbers, the
\* effect being the difference of the two means.
C25_DefinedWithBothGroups ==
    HeteroReturned =>
        \A id \in DOMAIN result.promotion_by_store :
            (StoreRows(id) > StorePromotedRows(id))
                => /\ ~IsNaNMean(result.promotion_by_store[id].treated_mean)
                   /\ ~IsNaNMean(result.promotion_by_store[id].control_mean)
                   /\ result.promotion_by_store[id].effect
                         = MeanSub(result.promotion_by_store[id].treated_mean,
                                   result.promotion_by_store[id].control_mean)

\* The second store, 32 rows all promoted, is reported: its treated_mean is
\* 110, its control_mean and its effect are NaN.
C25_AllPromotedStoreReported ==
    /\ HeteroReturned
    /\ StoreRows(2) = 32
    /\ StorePromotedRows(2) = 32
    /\ 2 \in DOMAIN result.promotion_by_store
    /\ MeanEq(result.promotion_by_store[2].treated_mean, Whole(110))
    /\ IsNaNMean(result.promotion_by_store[2].control_mean)
    /\ IsNaNMean(result.promotion_by_store[2].effect)
    /\ result.promotion_by_store[2].sample_size = 32

----------------------------------------------------------------------------
(* Properties of the fallback confidence interval *)

\* The estimator returned an estimate whose interval is the fallback.
FallbackInterval ==
    /\ pc = "return"
    /\ op = "_analyze_single_factor_econml"
    /\ "ate" \in DOMAIN result
    /\ estimator.interval = "raise"

\* C26: when the confidence interval comes from the fallback
\* ATE -/+ 1.96 x |ATE| x 0.1, the interval contains zero only if the ATE is
\* zero, so the result is flagged significant exactly when the ATE is
\* non-zero, whatever its size.
C26_FallbackSignificantIffNonZero ==
    FallbackInterval =>
        /\ result.ci_lower = result.ate - 196 * (Abs(result.ate) \div 1000)
        /\ result.ci_upper = result.ate + 196 * (Abs(result.ate) \div 1000)
        /\ (result.ci_lower <= 0 /\ 0 <= result.ci_upper) => result.ate = 0
        /\ result.significant <=> result.ate # 0

\* C26 witness: an estimate of -10000 with the fallback interval
\* [-11960, -8040], which lies wholly below zero, is flagged significant.
C26_Witness ==
    /\ FallbackInterval
    /\ result.ate = 0 - 10000000
    /\ result.ci_lower = 0 - 11960000
    /\ result.ci_upper = 0 - 8040000
    /\ result.significant = TRUE

\* So is an estimate of 1, with the interval [0.804, 1.196].
C26_SmallSignificant ==
    /\ FallbackInterval
    /\ result.ate = 1000
    /\ result.ci_lower = 804
    /\ result.ci_upper = 1196
    /\ result.significant = TRUE

\* An estimate of zero with the fallback interval [0, 0] is not significant.
C26_ZeroNotSignificant ==
    /\ FallbackInterval
    /\ result.ate = 0
    /\ result.ci_lower = 0
    /\ result.ci_upper = 0
    /\ result.significant = FALSE

----------------------------------------------------------------------------
(* The database client (backend/app/database.py): queries with retry       *)
(*                                                                         *)
(* A call gets the outcomes the server would give to its successive        *)
(* attempts: "rows" (a frame with rows), "empty" (a frame without), "fail" *)
(* (client.query_df raises).  In this part now counts tenths of a second.  *)

\* The default of max_retries (line 121).
DefaultMaxRetries == 3

QueryOutcomes == {"rows", "empty", "fail"}

\* The frame the server returns the k-th time it answers.
FrameOf(outcome, k) ==
    IF outcome = "rows" THEN [columns |-> {"n"}, rows |-> <<[n |-> k]>>]
    ELSE [columns |-> {}, rows |-> <<>>]

\* pd.DataFrame()
NoFrame == [columns |-> {}, rows |-> <<>>]

\* run_query() of execute_query_async, lines 109-111.  Returns [raised, value].
run_query(outcome, k) ==
    IF outcome = "fail" THEN [raised |-> TRUE, value |-> None]
    ELSE [raised |-> FALSE, value |-> FrameOf(outcome, k)]

\* execute_query_async(query), lines 113-119: every exception of the query is
\* logged and an empty DataFrame is returned.  Returns [raised, value].
execute_query_async(outcome, k) ==
    IF run_query(outcome, k).raised THEN [raised |-> FALSE, value |-> NoFrame]
    ELSE run_query(outcome, k)

\* The loop of execute_query_with_retry from iteration attempt on, the
\* attempts made so far being made and the time slept so far being slept.
\* Returns [value, made, slept]; a loop that runs out returns None.
RECURSIVE retry_loop(_, _, _, _, _)
retry_loop(outcomes, max_retries, attempt, made, slept) ==
    IF attempt >= max_retries THEN [value |-> None, made |-> made, slept |-> slept]
    ELSE IF ~execute_query_async(outcomes[attempt + 1], attempt + 1).raised
    THEN [value |-> execute_query_async(outcomes[attempt + 1], attempt + 1).value,
          made |-> Append(made, outcomes[attempt + 1]), slept |-> slept]
    ELSE IF attempt = max_retries - 1
    THEN [value |-> NoFrame, made |-> Append(made, outcomes[attempt + 1]),
          slept |-> slept]
    ELSE retry_loop(outcomes, max_retries, attempt + 1,
                    Append(made, outcomes[attempt + 1]), slept + 5 * (attempt + 1))

\* execute_query_with_retry(query, max_retries)
execute_query_with_retry(outcomes, max_retries) ==
    retry_loop(outcomes, max_retries, 0, <<>>, 0)

InitRetry ==
    /\ pc = "call"
    /\ op \in {"execute_query_with_retry", "execute_query_async"}
    /\ \E o \in [1..DefaultMaxRetries -> QueryOutcomes], r \in 1..DefaultMaxRetries :
          args = [outcomes |-> o, max_retries |-> r]
    /\ df = None
    /\ weather_df = None
    /\ estimator = None
    /\ result = None
    /\ fit_calls = 0
    /\ calls = <<>>
    /\ EngineInit
    /\ ServiceInit

\* db.execute_query_with_retry(query, max_retries): calls records the
\* attempts made, now the time slept.
ExecuteQueryWithRetry ==
    /\ pc = "call"
    /\ op = "execute_query_with_retry"
    /\ \E r \in {execute_query_with_retry(args.outcomes, args.max_retries)} :
          /\ result' = r.value
          /\ calls' = r.made
          /\ now' = now + r.slept
    /\ pc' = "return"
    /\ UNCHANGED <<op, args, df, weather_df, estimator, fit_calls>>
    /\ UNCHANGED <<raw_data, tasks, active_connections, sessions, cache>>
    /\ UNCHANGED engineVars

\* db.execute_query_async(query)
ExecuteQueryAsync ==
    /\ pc = "call"
    /\ op = "execute_query_async"
    /\ \E r \in {execute_query_async(args.outcomes[1], 1)} :
          /\ result' = r.value
          /\ pc' = IF r.raised THEN "raise" ELSE "return"
    /\ calls' = <<args.outcomes[1]>>
    /\ UNCHANGED <<op, args, df, weather_df, estimator, fit_calls>>
    /\ UNCHANGED serviceVars
    /\ UNCHANGED engineVars

NextRetry == ExecuteQueryWithRetry \/ ExecuteQueryAsync

SpecRetry == InitRetry /\ [][NextRetry]_vars

\* The failing attempts at the head of outcomes, up to limit of them.
RECURSIVE FailuresFirst(_, _)
FailuresFirst(outcomes, limit) ==
    IF limit = 0 \/ outcomes = <<>> \/ Head(outcomes) # "fail" THEN 0
    ELSE 1 + FailuresFirst(Tail(outcomes), limit - 1)

\* 0.5 s x 1 + ... + 0.5 s x k, in tenths of a second.
RECURSIVE Waits(_)
Waits(k) == IF k = 0 THEN 0 ELSE 5 * k + Waits(k - 1)

RetryReturned == op = "execute_query_with_retry" /\ pc # "call"

\* C27: execute_query_with_retry re-runs a failing query: when an attempt
\* fails it waits 0.5 s x attempt number and tries again, making up to
\* max_retries attempts in total, and returns an empty result only after the
\* last attempt has failed; a query that fails once and would then succeed
\* returns the successful result.
C27_RetriesFailingQuery ==
    RetryReturned =>
        \E f \in {FailuresFirst(args.outcomes, args.max_retries)} :
            /\ pc = "return"
            /\ IF f = args.max_retries
               THEN /\ Len(calls) = args.max_retries
                    /\ now = Waits(args.max_retries - 1)
                    /\ result = NoFrame
               ELSE /\ Len(calls) = f + 1
                    /\ now = Waits(f)
                    /\ result = FrameOf(args.outcomes[f + 1], f + 1)

\* What the method does: one attempt, no wait, the first attempt's frame or
\* an empty frame when it failed.
C27_OneAttemptNoWait ==
    RetryReturned =>
        /\ pc = "return"
        /\ Len(calls) = 1
        /\ now = 0
        /\ result = IF args.outcomes[1] = "fail" THEN NoFrame
                    ELSE FrameOf(args.outcomes[1], 1)

\* A query that fails once and would succeed on the second of three attempts
\* returned the empty frame after one attempt.
C27_EmptyAfterOneFailure ==
    /\ RetryReturned
    /\ args.max_retries = 3
    /\ args.outcomes[1] = "fail"
    /\ args.outcomes[2] = "rows"
    /\ calls = <<"fail">>
    /\ now = 0
    /\ result = NoFrame

\* execute_query_async never raises.
C27_AsyncNeverRaises == op = "execute_query_async" => pc # "raise"

----------------------------------------------------------------------------
(* Properties of the cache of the analysis service *)

\* The value is a mock daily report.
IsMockReport(value) == "metrics" \in DOMAIN value /\ "mock" \in DOMAIN value.metrics

\* The value is a top-level {error: ...} result.
IsErrorResult(value) == "error" \in DOMAIN value

\* Request i has returned and j asks for the same method with the same
\* parameters.
SameRequest(i, j) ==
    /\ i # j
    /\ tasks[i].method = tasks[j].method
    /\ tasks[i].params = tasks[j].params

\* C28: after any sequence of get_daily_report, run_causal_analysis and
\* get_sales_forecast calls the cache holds only results of computations
\* that succeeded: a mock daily report or a top-level {error: ...} result is
\* returned to the caller but never stored, so a later call with the same
\* parameters recomputes instead of serving the fallback from the cache.
C28_CacheHoldsNoFallback ==
    /\ [](/\ \A key \in DOMAIN cache :
                ~IsMockReport(cache[key].data) /\ ~IsErrorResult(cache[key].data)
          /\ \A i \in 1..Requests :
                tasks[i].cached
                    => ~IsMockReport(tasks[i].result) /\ ~IsErrorResult(tasks[i].result))
    /\ [][\A i \in 1..Requests :
            (tasks[i].pc # "return" /\ tasks'[i].pc = "return"
                /\ (IsMockReport(tasks'[i].result) \/ IsErrorResult(tasks'[i].result)))
                => cache' = cache]_vars

\* C28 witness: the first get_daily_report was answered with the mock report;
\* the second, with the same parameters, computed its report, which is the
\* one the cache holds.
C28_Witness ==
    /\ SameRequest(1, 2)
    /\ tasks[1].method = "get_daily_report"
    /\ tasks[1].pc = "return"
    /\ IsMockReport(tasks[1].result)
    /\ tasks[2].pc = "return"
    /\ ~tasks[2].cached
    /\ ~IsMockReport(tasks[2].result)
    /\ cache[_get_cache_key("get_daily_report", tasks[2].params)].data = tasks[2].result

\* A forecast request was answered {error: "not enough data", ...} and the
\* cache has no entry for it.
C28_ErrorForecastNotStored ==
    \E i \in 1..Requests :
        /\ tasks[i].method = "get_sales_forecast"
        /\ tasks[i].pc = "return"
        /\ IsErrorResult(tasks[i].result)
        /\ "current_days" \in DOMAIN tasks[i].result
        /\ _get_cache_key("get_sales_forecast", tasks[i].params) \notin DOMAIN cache

\* A request was served from the cache what the other request had computed.
C28_ServedFromCache ==
    \E i \in 1..Requests :
        /\ tasks[i].cached
        /\ \E j \in 1..Requests : SameRequest(i, j) /\ tasks[j].result = tasks[i].result

====
